---------------------------- MODULE Spec2Model ----------------------------
(***************************************************************************)
(* A model of the retrieval pipeline of rag-text-search: the sentence      *)
(* chunker, the TF-IDF and the OpenAI-compatible embedders, the in-memory  *)
(* and the Qdrant vector stores, and the RAG service that drives them.     *)
(*                                                                         *)
(* Text is a sequence of one-character strings.  Floating point values are *)
(* fixed point integers: vector components and idf weights count           *)
(* thousandths, scores count 1e-9 units (so the service's score threshold  *)
(* of 1e-9 is the integer 1).                                              *)
(***************************************************************************)
EXTENDS Integers, Sequences, FiniteSets, TLC

(***************************************************************************)
(* Characters and strings                                                  *)
(***************************************************************************)
LowerLetters ==
    <<"a","b","c","d","e","f","g","h","i","j","k","l","m",
      "n","o","p","q","r","s","t","u","v","w","x","y","z">>

UpperLetters ==
    <<"A","B","C","D","E","F","G","H","I","J","K","L","M",
      "N","O","P","Q","R","S","T","U","V","W","X","Y","Z">>

Digits == <<"0","1","2","3","4","5","6","7","8","9">>

LowerSet == {LowerLetters[k] : k \in DOMAIN LowerLetters}

UpperSet == {UpperLetters[k] : k \in DOMAIN UpperLetters}

\* \p{L}
LetterSet == LowerSet \cup UpperSet

IsUpper(c) == c \in UpperSet

IsLetter(c) == c \in LetterSet

\* the apostrophes of the token pattern
IsApostrophe(c) == c = "'"

\* the sentence terminators of the splitter pattern [.!?]
IsTerminator(c) == c \in {".", "!", "?"}

\* unicode.IsSpace, for the characters used here
IsSpace(c) == c \in {" ", "\n", "\t"}

\* strings.ToLower, one character
LowerOf == [c \in UpperSet |-> LowerLetters[CHOOSE k \in DOMAIN UpperLetters : UpperLetters[k] = c]]

ToLowerChar(c) == IF IsUpper(c) THEN LowerOf[c] ELSE c

\* strings.ToLower
ToLower(s) == [k \in DOMAIN s |-> ToLowerChar(s[k])]

\* strings.HasSuffix
HasSuffix(s, suf) ==
    /\ Len(s) >= Len(suf)
    /\ SubSeq(s, Len(s) - Len(suf) + 1, Len(s)) = suf

\* strings.TrimSpace
RECURSIVE TrimLeft(_)
TrimLeft(s) ==
    IF s # <<>> /\ IsSpace(Head(s)) THEN TrimLeft(Tail(s)) ELSE s

RECURSIVE TrimRight(_)
TrimRight(s) ==
    IF s # <<>> /\ IsSpace(s[Len(s)])
    THEN TrimRight(SubSeq(s, 1, Len(s) - 1))
    ELSE s

TrimSpace(s) == TrimRight(TrimLeft(s))

\* strings.Join(parts, sep)
RECURSIVE Join(_, _)
Join(parts, sep) ==
    IF parts = <<>> THEN <<>>
    ELSE IF Len(parts) = 1 THEN parts[1]
    ELSE parts[1] \o sep \o Join(Tail(parts), sep)

\* strconv.Itoa for the non-negative integers used as chunk indexes
RECURSIVE Itoa(_)
Itoa(n) ==
    IF n < 10 THEN <<Digits[n + 1]>>
    ELSE Itoa(n \div 10) \o <<Digits[(n % 10) + 1]>>

\* the characters used, in byte order
ByteOrder ==
    <<"\t", "\n", " ", "!", "'", "*", "+", "-", ".">> \o Digits \o <<":", "?">>
        \o UpperLetters \o LowerLetters

RankOf == [c \in {ByteOrder[k] : k \in DOMAIN ByteOrder} |->
              CHOOSE k \in DOMAIN ByteOrder : ByteOrder[k] = c]

CharRank(c) == RankOf[c]

\* the order of sort.Strings
RECURSIVE StrLess(_, _)
StrLess(a, b) ==
    IF b = <<>> THEN FALSE
    ELSE IF a = <<>> THEN TRUE
    ELSE IF CharRank(Head(a)) # CharRank(Head(b))
         THEN CharRank(Head(a)) < CharRank(Head(b))
    ELSE StrLess(Tail(a), Tail(b))

\* sort.Strings over a set of distinct strings
RECURSIVE SortStrings(_)
SortStrings(S) ==
    IF S = {} THEN <<>>
    ELSE LET m == CHOOSE x \in S : \A y \in S \ {x} : StrLess(x, y)
         IN  <<m>> \o SortStrings(S \ {m})

\* the elements of a sequence
Range(s) == {s[k] : k \in DOMAIN s}

(***************************************************************************)
(* Tokens: the pattern \p{L}+(?:[']\p{L}+)* over lower-cased text          *)
(***************************************************************************)
\* the end of the run of letters that starts at position i of s (i holds a
\* letter): the position of its last letter
RECURSIVE RunEnd(_, _)
RunEnd(s, i) ==
    IF i < Len(s) /\ IsLetter(s[i + 1]) THEN RunEnd(s, i + 1) ELSE i

\* the end of the token that starts at position i of s
RECURSIVE TokenEnd(_, _)
TokenEnd(s, i) ==
    LET e == RunEnd(s, i)
    IN  IF e + 2 <= Len(s) /\ IsApostrophe(s[e + 1]) /\ IsLetter(s[e + 2])
        THEN TokenEnd(s, e + 2)
        ELSE e

\* regexp.FindAllString(pattern, -1), from position i on
RECURSIVE FindTokensFrom(_, _)
FindTokensFrom(s, i) ==
    IF i > Len(s) THEN <<>>
    ELSE IF IsLetter(s[i])
         THEN LET e == TokenEnd(s, i)
              IN  <<SubSeq(s, i, e)>> \o FindTokensFrom(s, e + 1)
    ELSE FindTokensFrom(s, i + 1)

FindAllTokens(s) == FindTokensFrom(s, 1)

defaultStopwords == {
    <<"a">>, <<"a","n">>, <<"t","h","e">>, <<"a","n","d">>, <<"o","r">>, <<"b","u","t">>,
    <<"i","f">>, <<"t","h","e","n">>, <<"e","l","s","e">>, <<"f","o","r">>, <<"t","o">>,
    <<"o","f">>, <<"i","n">>, <<"o","n">>, <<"a","t">>, <<"b","y">>, <<"w","i","t","h">>,
    <<"a","s">>, <<"i","s">>, <<"a","r","e">>, <<"w","a","s">>, <<"w","e","r","e">>,
    <<"b","e">>, <<"b","e","e","n">>, <<"b","e","i","n","g">>, <<"i","t">>, <<"t","h","i","s">>,
    <<"t","h","a","t">>, <<"t","h","e","s","e">>, <<"t","h","o","s","e">>, <<"f","r","o","m">>,
    <<"u","p">>, <<"d","o","w","n">>, <<"o","v","e","r">>, <<"u","n","d","e","r">>,
    <<"a","g","a","i","n">>, <<"f","u","r","t","h","e","r">>, <<"t","h","a","n">>, <<"s","o">>,
    <<"s","u","c","h">>, <<"i","n","t","o">>, <<"a","b","o","u","t">>,
    <<"b","e","t","w","e","e","n">>, <<"t","h","r","o","u","g","h">>,
    <<"d","u","r","i","n","g">>, <<"b","e","f","o","r","e">>, <<"a","f","t","e","r">>,
    <<"a","b","o","v","e">>, <<"b","e","l","o","w">>, <<"o","u","t">>, <<"o","f","f">>,
    <<"o","w","n">>, <<"s","a","m","e">>, <<"t","o","o">>, <<"v","e","r","y">>, <<"c","a","n">>,
    <<"w","i","l","l">>, <<"j","u","s","t">>, <<"d","o","n">>, <<"s","h","o","u","l","d">>,
    <<"n","o","w">>
}

\* tokenize without the lower-casing
tokenizeKeepingCase(text) ==
    SelectSeq(FindAllTokens(text), LAMBDA t : t \notin defaultStopwords)

\* tfidf.Embedder.tokenize: lower-case, match, drop the stopwords
tokenize(text) ==
    SelectSeq(FindAllTokens(ToLower(text)), LAMBDA t : t \notin defaultStopwords)

\* service.toTokenSet: lower-case, match, keep every token once
toTokenSet(s) == Range(FindAllTokens(ToLower(s)))

(***************************************************************************)
(* Sentences: the splitter pattern (?m)(?U)([^.!?]+[.!?])                  *)
(***************************************************************************)
\* FindAllString of the splitter: every maximal run of non-terminators that
\* is followed by a terminator, with that terminator; cur is the run so far
RECURSIVE SplitFrom(_, _)
SplitFrom(s, cur) ==
    IF s = <<>> THEN <<>>
    ELSE IF IsTerminator(Head(s))
         THEN IF cur = <<>>
              THEN SplitFrom(Tail(s), <<>>)
              ELSE <<cur \o <<Head(s)>>>> \o SplitFrom(Tail(s), <<>>)
    ELSE SplitFrom(Tail(s), cur \o <<Head(s)>>)

FindAllSentences(content) == SplitFrom(content, <<>>)

(***************************************************************************)
(* The sentence chunker                                                    *)
(***************************************************************************)
VARIABLES
    wiring,     \* the embedder, the store and the chunker the service was built with
    svc,        \* the state of the service and of its components
    last,       \* the last call made: its arguments and what it left
    ingested,   \* whether an IngestDocuments call has returned without error
    loop        \* one Chunk or one remote Embed call in progress, step by step

vars == <<wiring, svc, last, ingested, loop>>

\* no Chunk call in progress
LoopIdle == [pc |-> "idle"]

\* NewSentenceChunker: the configuration it keeps for the values given
NewSentenceChunker(sentencesPerChunk, overlapSentences) ==
    [sentencesPerChunk |-> IF sentencesPerChunk <= 0 THEN 5 ELSE sentencesPerChunk,
     overlapSentences  |-> IF overlapSentences < 0 THEN 0 ELSE overlapSentences]

\* Chunk, before its loop: the trimmed sentences of the document
Sentences(content) ==
    LET found == FindAllSentences(content)
        all   == IF found = <<>>
                 THEN IF TrimSpace(content) = <<>> THEN <<>> ELSE <<TrimSpace(content)>>
                 ELSE found
    IN  [k \in DOMAIN all |-> TrimSpace(all[k])]

\* the end of the chunk that starts at sentence i (0-based, exclusive end)
ChunkEnd(c, n, i) ==
    IF i + c.sentencesPerChunk > n THEN n ELSE i + c.sentencesPerChunk

\* the chunk numbered by the sentence it starts at
MakeChunkNumberedByStart(documentID, sentences, i, end, idx) ==
    [DocumentID |-> documentID,
     ChunkID    |-> documentID \o <<":">> \o Itoa(i),
     Text       |-> Join(SubSeq(sentences, i + 1, end), <<" ">>),
     Index      |-> i]

\* the chunk built by one iteration of the loop
MakeChunk(documentID, sentences, i, end, idx) ==
    [DocumentID |-> documentID,
     ChunkID    |-> documentID \o <<":">> \o Itoa(idx),
     Text       |-> Join(SubSeq(sentences, i + 1, end), <<" ">>),
     Index      |-> idx]

\* the next chunk started where the last one ended
NextStartWithoutOverlap(c, end) == end

\* the start of the next chunk: end - overlap, clamped to 0
NextStart(c, end) ==
    IF end - c.overlapSentences < 0 THEN 0 ELSE end - c.overlapSentences

\* SentenceChunker.Chunk as one call.  returns = FALSE stands for a call that
\* never returns: the loop is deterministic in its start position i, so a
\* call that has run more iterations than there are sentences without
\* reaching the last sentence repeats a start position for ever.
RECURSIVE ChunkLoop(_, _, _, _, _, _)
ChunkLoop(c, documentID, sentences, i, idx, out) ==
    LET n     == Len(sentences)
        end   == ChunkEnd(c, n, i)
        grown == Append(out, MakeChunk(documentID, sentences, i, end, idx))
    IN  IF ~(i < n) THEN [returns |-> TRUE, chunks |-> out]
        ELSE IF end = n THEN [returns |-> TRUE, chunks |-> grown]
        ELSE IF Len(grown) > n THEN [returns |-> FALSE, chunks |-> <<>>]
        ELSE ChunkLoop(c, documentID, sentences, NextStart(c, end), idx + 1, grown)

Chunk(c, document) ==
    ChunkLoop(c, document.ID, Sentences(document.Content), 0, 0, <<>>)

(***************************************************************************)
(* Fixed point arithmetic                                                  *)
(***************************************************************************)
\* 1000 * ln(k) for k = 1 .. 12, rounded
LnTable == <<0, 693, 1099, 1386, 1609, 1792, 1946, 2079, 2197, 2303, 2398, 2485>>

\* math.Sqrt on non-negative integers, rounded down
RECURSIVE SqrtBetween(_, _, _)
SqrtBetween(n, lo, hi) ==
    IF lo >= hi THEN lo
    ELSE LET mid == (lo + hi + 1) \div 2
         IN  IF mid * mid <= n THEN SqrtBetween(n, mid, hi)
             ELSE SqrtBetween(n, lo, mid - 1)

Sqrt(n) == SqrtBetween(n, 0, IF n < 40000 THEN n ELSE 40000)

RECURSIVE SumSeq(_)
SumSeq(s) == IF s = <<>> THEN 0 ELSE Head(s) + SumSeq(Tail(s))

(***************************************************************************)
(* The TF-IDF embedder                                                     *)
(***************************************************************************)
\* NewEmbedder
NewEmbedder == [vocabulary |-> <<>>, idf |-> <<>>, dimension |-> 0, prepared |-> FALSE]

\* the terms of each corpus text that survive tokenization and stopword
\* filtering (the seen set of Prepare)
SeenTerms(corpus) ==
    [k \in DOMAIN corpus |-> Range(tokenize(corpus[k])) \ defaultStopwords]

\* the document frequency df of a term: the number of corpus texts that hold it
DocFreq(seen, term) == Cardinality({k \in DOMAIN seen : term \in seen[k]})

\* the smoothed idf, math.Log((1+N)/(1+df)) + 1.0, in thousandths
SmoothedIdf(n, df) == LnTable[1 + n] - LnTable[1 + df] + 1000

\* Prepare with the terms of the vocabulary it held kept in the new one
PrepareKeepingTerms(e, corpus) ==
    LET Built(seen, terms) ==
            IF Len(terms) = 0
            THEN [err |-> "no tokens found in corpus", e |-> e]
            ELSE [err |-> "",
                  e   |-> [vocabulary |-> terms,
                           idf        |-> [k \in DOMAIN terms |->
                                              SmoothedIdf(Len(corpus),
                                                          DocFreq(seen, terms[k]))],
                           dimension  |-> Len(terms),
                           prepared   |-> TRUE]]
        Scanned(seen) ==
            Built(seen, SortStrings((UNION Range(seen)) \cup Range(e.vocabulary)))
    IN  IF Len(corpus) = 0
        THEN [err |-> "empty corpus for TF-IDF prepare", e |-> e]
        ELSE Scanned(SeenTerms(corpus))

\* Embedder.Prepare: the error it returns and the embedder it leaves.  The
\* vocabulary maps a term to its position in the sorted term list, held
\* here as that list.
Prepare(e, corpus) ==
    LET Built(seen, terms) ==
            IF Len(terms) = 0
            THEN [err |-> "no tokens found in corpus", e |-> e]
            ELSE [err |-> "",
                  e   |-> [vocabulary |-> terms,
                           idf        |-> [k \in DOMAIN terms |->
                                              SmoothedIdf(Len(corpus),
                                                          DocFreq(seen, terms[k]))],
                           dimension  |-> Len(terms),
                           prepared   |-> TRUE]]
        Scanned(seen) == Built(seen, SortStrings(UNION Range(seen)))
    IN  IF Len(corpus) = 0
        THEN [err |-> "empty corpus for TF-IDF prepare", e |-> e]
        ELSE Scanned(SeenTerms(corpus))

\* the number of tokens equal to the vocabulary term at position k
TermCount(e, tokens, k) ==
    Cardinality({j \in DOMAIN tokens : tokens[j] = e.vocabulary[k]})

\* Embedder.Embed: the error and the vector it returns
TfidfEmbed(e, text) ==
    LET Normalised(raw, norm) ==
            IF norm > 0 THEN [k \in 1 .. e.dimension |-> (raw[k] * 1000) \div norm] ELSE raw
        Weighted(raw) ==
            Normalised(raw, Sqrt(SumSeq([k \in 1 .. e.dimension |-> raw[k] * raw[k]])))
        Counted(tf, total) ==
            IF total = 0 THEN [k \in 1 .. e.dimension |-> 0]
            ELSE Weighted([k \in 1 .. e.dimension |->
                              IF tf[k] = 0 THEN 0 ELSE (tf[k] * e.idf[k]) \div total])
        Summed(tf) == Counted(tf, SumSeq(tf))
        Tokenized(tokens) == Summed([k \in 1 .. e.dimension |-> TermCount(e, tokens, k)])
    IN  IF ~e.prepared THEN [err |-> "tfidf embedder not prepared", vec |-> <<>>]
        ELSE [err |-> "",
              vec |-> Tokenized(SelectSeq(tokenize(text),
                                          LAMBDA t : t \notin defaultStopwords))]

(***************************************************************************)
(* The in-memory vector store                                              *)
(***************************************************************************)
\* memory.NewStorage
NewStorage == [dimension |-> 0, vectors |-> <<>>, chunks |-> <<>>]

\* Init with the contents kept
MemInitKeepingContents(s, dimension) ==
    IF dimension <= 0
    THEN [err |-> "invalid dimension", s |-> s]
    ELSE [err |-> "", s |-> [s EXCEPT !.dimension = dimension]]

\* Storage.Init
MemInit(s, dimension) ==
    IF dimension <= 0
    THEN [err |-> "invalid dimension", s |-> s]
    ELSE [err |-> "", s |-> [dimension |-> dimension, vectors |-> <<>>, chunks |-> <<>>]]

\* Upsert with each vector checked as it is appended: the entries before the
\* first vector of another length stay in the store
MemUpsertCheckingAsItAppends(s, chunks, vectors) ==
    LET bad == {k \in DOMAIN vectors : Len(vectors[k]) # s.dimension}
        n   == IF bad = {} THEN Len(vectors)
               ELSE (CHOOSE k \in bad : \A j \in bad : k <= j) - 1
    IN  IF Len(chunks) # Len(vectors)
        THEN [err |-> "chunks and vectors length mismatch", s |-> s]
        ELSE [err |-> IF bad = {} THEN "" ELSE "vector dimension mismatch",
              s   |-> [s EXCEPT !.chunks = s.chunks \o SubSeq(chunks, 1, n),
                                !.vectors = s.vectors \o SubSeq(vectors, 1, n)]]

\* Storage.Upsert
MemUpsert(s, chunks, vectors) ==
    IF Len(chunks) # Len(vectors)
    THEN [err |-> "chunks and vectors length mismatch", s |-> s]
    ELSE IF \E k \in DOMAIN vectors : Len(vectors[k]) # s.dimension
    THEN [err |-> "vector dimension mismatch", s |-> s]
    ELSE [err |-> "",
          s   |-> [s EXCEPT !.chunks = s.chunks \o chunks,
                            !.vectors = s.vectors \o vectors]]

\* Storage.Clear
MemClear(s) == [err |-> "", s |-> [s EXCEPT !.vectors = <<>>, !.chunks = <<>>]]

\* dot over the first component only
dotOfFirstComponent(a, b) ==
    IF Len(a) > 0 /\ Len(b) > 0 THEN 1000 * a[1] * b[1] ELSE 0

\* dot, over the shorter of the two lengths; a product of two thousandths
\* is a millionth, and a score counts 1e-9
dot(a, b) ==
    LET n == IF Len(b) < Len(a) THEN Len(b) ELSE Len(a)
    IN  1000 * SumSeq([k \in 1 .. n |-> a[k] * b[k]])

\* quicksort: idxs holds 0-based positions of vals, lo and hi are 0-based
Swap(idxs, i, j) == [idxs EXCEPT ![i + 1] = idxs[j + 1], ![j + 1] = idxs[i + 1]]

RECURSIVE ScanUp(_, _, _, _)
ScanUp(idxs, vals, i, pivot) ==
    IF vals[idxs[i + 1] + 1] > pivot THEN ScanUp(idxs, vals, i + 1, pivot) ELSE i

RECURSIVE ScanDown(_, _, _, _)
ScanDown(idxs, vals, j, pivot) ==
    IF vals[idxs[j + 1] + 1] < pivot THEN ScanDown(idxs, vals, j - 1, pivot) ELSE j

RECURSIVE Partition(_, _, _, _, _)
Partition(idxs, vals, i, j, pivot) ==
    IF ~(i <= j) THEN [idxs |-> idxs, i |-> i, j |-> j]
    ELSE LET i2 == ScanUp(idxs, vals, i, pivot)
             j2 == ScanDown(idxs, vals, j, pivot)
         IN  IF i2 <= j2
             THEN Partition(Swap(idxs, i2, j2), vals, i2 + 1, j2 - 1, pivot)
             ELSE Partition(idxs, vals, i2, j2, pivot)

\* quicksort with the part right of the pivot left unsorted
RECURSIVE quicksortLeftOnly(_, _, _, _)
quicksortLeftOnly(idxs, vals, lo, hi) ==
    IF lo >= hi THEN idxs
    ELSE LET p == Partition(idxs, vals, lo, hi, vals[idxs[((lo + hi) \div 2) + 1] + 1])
         IN  IF lo < p.j THEN quicksortLeftOnly(p.idxs, vals, lo, p.j) ELSE p.idxs

RECURSIVE quicksort(_, _, _, _)
quicksort(idxs, vals, lo, hi) ==
    IF lo >= hi THEN idxs
    ELSE LET p    == Partition(idxs, vals, lo, hi, vals[idxs[((lo + hi) \div 2) + 1] + 1])
             left == IF lo < p.j THEN quicksort(p.idxs, vals, lo, p.j) ELSE p.idxs
         IN  IF p.i < hi THEN quicksort(left, vals, p.i, hi) ELSE left

\* argsortDesc: the 0-based positions of vals, highest value first
argsortDesc(vals) ==
    quicksort([k \in DOMAIN vals |-> k - 1], vals, 0, Len(vals) - 1)

\* Storage.Search
MemSearch(s, vector, topK) ==
    LET k0 == IF topK <= 0 THEN 5 ELSE topK
        Top(scores, idxs) ==
            [err     |-> "",
             results |-> [i \in 1 .. (IF k0 > Len(idxs) THEN Len(idxs) ELSE k0) |->
                             [Chunk |-> s.chunks[idxs[i] + 1],
                              Score |-> scores[idxs[i] + 1]]]]
        Scored(scores) == Top(scores, argsortDesc(scores))
    IN  Scored([k \in DOMAIN s.vectors |-> dot(s.vectors[k], vector)])

(***************************************************************************)
(* The Qdrant vector store: the client, and the collection it talks to     *)
(***************************************************************************)
\* qdrant.NewStorage: the client keeps the dimension it was last told
NewQdrantStorage == [dimension |-> 0]

\* the server before any request: no collection
NoCollection == [exists |-> FALSE, size |-> 0, points |-> <<>>]

\* PUT /collections/{name}: the collection is created if missing, accepted as
\* it is when it has the same vector size, refused (status >= 300) otherwise
ServerCreate(srv, size) ==
    IF ~srv.exists
    THEN [ok |-> TRUE, srv |-> [exists |-> TRUE, size |-> size, points |-> <<>>]]
    ELSE [ok |-> srv.size = size, srv |-> srv]

\* the points of a request merged into the stored ones, by point id
RECURSIVE MergePoints(_, _)
MergePoints(stored, points) ==
    IF points = <<>> THEN stored
    ELSE LET pt == Head(points)
             at == {k \in DOMAIN stored : stored[k].id = pt.id}
         IN  MergePoints(IF at = {} THEN Append(stored, pt)
                         ELSE [k \in DOMAIN stored |-> IF k \in at THEN pt ELSE stored[k]],
                         Tail(points))

\* PUT /collections/{name}/points?wait=true: refused when the collection is
\* missing or a vector has another size
ServerUpsert(srv, points) ==
    IF srv.exists /\ \A k \in DOMAIN points : Len(points[k].vector) = srv.size
    THEN [ok |-> TRUE, srv |-> [srv EXCEPT !.points = MergePoints(srv.points, points)]]
    ELSE [ok |-> FALSE, srv |-> srv]

\* DELETE /collections/{name}
ServerDelete(srv) == NoCollection

\* POST /collections/{name}/points/search: the limit best points by score;
\* the vectors stored are L2-normalised, so the cosine is the dot product
ServerSearch(srv, vector, limit) ==
    LET Top(scores, idxs) ==
            [ok     |-> TRUE,
             result |-> [i \in 1 .. (IF limit > Len(idxs) THEN Len(idxs) ELSE limit) |->
                            [score   |-> scores[idxs[i] + 1],
                             payload |-> srv.points[idxs[i] + 1].payload]]]
        Scored(scores) == Top(scores, argsortDesc(scores))
    IN  IF ~srv.exists \/ Len(vector) # srv.size THEN [ok |-> FALSE, result |-> <<>>]
        ELSE Scored([k \in DOMAIN srv.points |-> dot(srv.points[k].vector, vector)])

\* Init without the check of the dimension
QdInitAcceptingAnyDimension(q, srv, dimension, net) ==
    LET q2 == [q EXCEPT !.dimension = dimension]
        Answered(put) ==
            [err  |-> IF put.ok THEN "" ELSE "qdrant PUT failed",
             q    |-> q2, srv |-> put.srv, sent |-> <<"PUT collection">>]
    IN  IF net = "down"
        THEN [err |-> "transport", q |-> q2, srv |-> srv, sent |-> <<"PUT collection">>]
        ELSE Answered(ServerCreate(srv, dimension))

\* qdrant Storage.Init; net is "ok" when the request reaches the server and
\* its answer comes back, "down" when the transport fails
QdInit(q, srv, dimension, net) ==
    LET q2 == [q EXCEPT !.dimension = dimension]
        Answered(put) ==
            [err  |-> IF put.ok THEN "" ELSE "qdrant PUT failed",
             q    |-> q2, srv |-> put.srv, sent |-> <<"PUT collection">>]
    IN  IF dimension <= 0
        THEN [err |-> "invalid dimension", q |-> q, srv |-> srv, sent |-> <<>>]
        ELSE IF net = "down"
        THEN [err |-> "transport", q |-> q2, srv |-> srv, sent |-> <<"PUT collection">>]
        ELSE Answered(ServerCreate(srv, dimension))

\* the point Storage.Upsert builds for one chunk
PointOf(chunk, vector) ==
    [id      |-> chunk.DocumentID \o <<":">> \o Itoa(chunk.Index),
     vector  |-> vector,
     payload |-> [document_id |-> chunk.DocumentID, chunk_id |-> chunk.ChunkID,
                  index |-> chunk.Index, text |-> chunk.Text]]

\* qdrant Storage.Upsert
QdUpsert(q, srv, chunks, vectors, net) ==
    LET Answered(put) ==
            [err  |-> IF put.ok THEN "" ELSE "qdrant PUT failed",
             q    |-> q, srv |-> put.srv, sent |-> <<"PUT points">>]
    IN  IF Len(chunks) # Len(vectors)
        THEN [err |-> "chunks and vectors length mismatch", q |-> q, srv |-> srv,
              sent |-> <<>>]
        ELSE IF net = "down"
        THEN [err |-> "transport", q |-> q, srv |-> srv, sent |-> <<"PUT points">>]
        ELSE Answered(ServerUpsert(srv, [k \in DOMAIN chunks |->
                                            PointOf(chunks[k], vectors[k])]))

\* Clear with the failure of the request returned
QdClearReportingFailure(q, srv, net) ==
    [err  |-> IF net = "ok" THEN "" ELSE "qdrant DELETE failed", q |-> q,
     srv  |-> IF net = "ok" THEN ServerDelete(srv) ELSE srv,
     sent |-> <<"DELETE collection">>]

\* qdrant Storage.Clear: the outcome of the request is dropped, be it a
\* transport failure ("down"), an error status of a server that keeps the
\* collection ("refused"), or the deletion
QdClear(q, srv, net) ==
    [err  |-> "", q |-> q,
     srv  |-> IF net = "ok" THEN ServerDelete(srv) ELSE srv,
     sent |-> <<"DELETE collection">>]

\* qdrant Storage.Search: the results are rebuilt from the payloads
QdSearch(q, srv, vector, topK, net) ==
    LET k0 == IF topK <= 0 THEN 5 ELSE topK
        ChunkOf(payload) ==
            [DocumentID |-> payload.document_id, ChunkID |-> payload.chunk_id,
             Text |-> payload.text, Index |-> payload.index]
        Answered(resp) ==
            IF ~resp.ok THEN [err |-> "qdrant POST failed", results |-> <<>>]
            ELSE [err     |-> "",
                  results |-> [i \in DOMAIN resp.result |->
                                  [Chunk |-> ChunkOf(resp.result[i].payload),
                                   Score |-> resp.result[i].score]]]
    IN  IF net = "down" THEN [err |-> "transport", results |-> <<>>]
        ELSE Answered(ServerSearch(srv, vector, k0))

(***************************************************************************)
(* The OpenAI-compatible embeddings client                                 *)
(***************************************************************************)
\* NewClient: maxRetries
maxRetries == 5

\* NewClient: the dimension is unknown until a response gives a vector
NewClient == [dimension |-> 0]

\* retryDelay, in milliseconds: 200ms << attempt, capped at 5s
RECURSIVE ShiftLeft(_, _)
ShiftLeft(x, k) == IF k = 0 THEN x ELSE ShiftLeft(2 * x, k - 1)

\* the delay doubled without the cap
retryDelayUncapped(attempt) == ShiftLeft(200, IF attempt < 0 THEN 0 ELSE attempt)

retryDelay(attempt) ==
    LET a == IF attempt < 0 THEN 0 ELSE attempt
        d == ShiftLeft(200, a)
    IN  IF d > 5000 THEN 5000 ELSE d

\* strconv.Atoi on a header value: an optional sign, then decimal digits
DigitValue(c) == (CHOOSE k \in DOMAIN Digits : Digits[k] = c) - 1

RECURSIVE DigitsValue(_, _)
DigitsValue(s, acc) ==
    IF s = <<>> THEN acc ELSE DigitsValue(Tail(s), 10 * acc + DigitValue(Head(s)))

Atoi(s) ==
    LET signed == s # <<>> /\ Head(s) \in {"+", "-"}
        body   == IF signed THEN Tail(s) ELSE s
    IN  IF body = <<>> \/ \E k \in DOMAIN body : body[k] \notin Range(Digits)
        THEN [ok |-> FALSE, n |-> 0]
        ELSE [ok |-> TRUE,
              n  |-> IF signed /\ Head(s) = "-" THEN 0 - DigitsValue(body, 0)
                     ELSE DigitsValue(body, 0)]

\* what the server can answer to one request: no answer at all (transport
\* failure), or a status, a Retry-After header ("" when absent) and a body;
\* a body is unreadable, or not JSON, or JSON with a data list of embeddings
\* and a flat embedding (empty when the field is missing)
NoAnswer == [net |-> "fail"]

Answer(status, retryAfter, body) ==
    [net |-> "ok", status |-> status, retryAfter |-> retryAfter, body |-> body]

NoBody == [readable |-> TRUE, json |-> FALSE, data |-> <<>>, embedding |-> <<>>]

Unreadable == [readable |-> FALSE, json |-> FALSE, data |-> <<>>, embedding |-> <<>>]

Json(data, embedding) ==
    [readable |-> TRUE, json |-> TRUE, data |-> data, embedding |-> embedding]

\* the embedding a readable body gives: data[0].embedding first, then the
\* flat embedding; <<>> when neither is there
ParseEmbedding(body) ==
    IF ~body.json THEN <<>>
    ELSE IF Len(body.data) > 0 /\ Len(body.data[1]) > 0 THEN body.data[1]
    ELSE body.embedding

\* the delay with the Retry-After header left unread
RetryAfterDelayIgnoringHeader(attempt, retryAfter) == retryDelay(attempt)

\* the duration handed to time.Sleep after a 429 or 5xx answer, in
\* milliseconds
RetryAfterDelay(attempt, retryAfter) ==
    LET Parsed(secs) == IF secs.ok THEN secs.n * 1000 ELSE retryDelay(attempt)
    IN  IF retryAfter # <<>> THEN Parsed(Atoi(retryAfter)) ELSE retryDelay(attempt)

\* the iteration with the error of the last 429/5xx answer lost, and the one
\* with the dimension set by every vector
EmbedAttemptLosingLastError(c, attempt, resp) ==
    LET more == attempt < maxRetries
        Again(slept) ==
            [next |-> "continue", slept |-> slept, err |-> "", vec |-> <<>>, c |-> c]
        Fail(msg, slept) ==
            [next |-> "return", slept |-> slept, err |-> msg, vec |-> <<>>, c |-> c]
        Backoff(msg) == IF more THEN Again(<<retryDelay(attempt)>>) ELSE Fail(msg, <<>>)
        Throttled(slept) == IF more THEN Again(slept) ELSE Fail("", slept)
        Decoded(v) ==
            IF Len(v) > 0
            THEN [next |-> "return", slept |-> <<>>, err |-> "", vec |-> v,
                  c |-> IF c.dimension = 0 THEN [c EXCEPT !.dimension = Len(v)] ELSE c]
            ELSE Backoff("no embedding returned")
    IN  IF resp.net = "fail" THEN Backoff("transport")
        ELSE IF resp.status = 429 \/ resp.status >= 500
        THEN Throttled(<<RetryAfterDelay(attempt, resp.retryAfter)>>)
        ELSE IF resp.status >= 300 THEN Fail("openai embeddings failed", <<>>)
        ELSE IF ~resp.body.readable THEN Backoff("read")
        ELSE Decoded(ParseEmbedding(resp.body))

EmbedAttemptSettingDimensionEachTime(c, attempt, resp) ==
    LET more == attempt < maxRetries
        Again(slept) ==
            [next |-> "continue", slept |-> slept, err |-> "", vec |-> <<>>, c |-> c]
        Fail(msg, slept) ==
            [next |-> "return", slept |-> slept, err |-> msg, vec |-> <<>>, c |-> c]
        Backoff(msg) == IF more THEN Again(<<retryDelay(attempt)>>) ELSE Fail(msg, <<>>)
        Throttled(slept) ==
            IF more THEN Again(slept) ELSE Fail("openai embeddings failed", slept)
        Decoded(v) ==
            IF Len(v) > 0
            THEN [next |-> "return", slept |-> <<>>, err |-> "", vec |-> v,
                  c |-> [c EXCEPT !.dimension = Len(v)]]
            ELSE Backoff("no embedding returned")
    IN  IF resp.net = "fail" THEN Backoff("transport")
        ELSE IF resp.status = 429 \/ resp.status >= 500
        THEN Throttled(<<RetryAfterDelay(attempt, resp.retryAfter)>>)
        ELSE IF resp.status >= 300 THEN Fail("openai embeddings failed", <<>>)
        ELSE IF ~resp.body.readable THEN Backoff("read")
        ELSE Decoded(ParseEmbedding(resp.body))

\* the iteration with every status of 300 and above retried
EmbedAttemptRetryingEveryStatus(c, attempt, resp) ==
    LET more == attempt < maxRetries
        Again(slept) ==
            [next |-> "continue", slept |-> slept, err |-> "", vec |-> <<>>, c |-> c]
        Fail(msg, slept) ==
            [next |-> "return", slept |-> slept, err |-> msg, vec |-> <<>>, c |-> c]
        Backoff(msg) == IF more THEN Again(<<retryDelay(attempt)>>) ELSE Fail(msg, <<>>)
        Throttled(slept) ==
            IF more THEN Again(slept) ELSE Fail("openai embeddings failed", slept)
        Decoded(v) ==
            IF Len(v) > 0
            THEN [next |-> "return", slept |-> <<>>, err |-> "", vec |-> v,
                  c |-> IF c.dimension = 0 THEN [c EXCEPT !.dimension = Len(v)] ELSE c]
            ELSE Backoff("no embedding returned")
    IN  IF resp.net = "fail" THEN Backoff("transport")
        ELSE IF resp.status >= 300
        THEN Throttled(<<RetryAfterDelay(attempt, resp.retryAfter)>>)
        ELSE IF ~resp.body.readable THEN Backoff("read")
        ELSE Decoded(ParseEmbedding(resp.body))

\* one iteration of the loop of Client.Embed, for the answer resp: whether
\* the loop goes on, what was slept, what is returned, the client left
EmbedAttempt(c, attempt, resp) ==
    LET more == attempt < maxRetries
        Again(slept) ==
            [next |-> "continue", slept |-> slept, err |-> "", vec |-> <<>>, c |-> c]
        Fail(msg, slept) ==
            [next |-> "return", slept |-> slept, err |-> msg, vec |-> <<>>, c |-> c]
        Backoff(msg) == IF more THEN Again(<<retryDelay(attempt)>>) ELSE Fail(msg, <<>>)
        Throttled(slept) ==
            IF more THEN Again(slept) ELSE Fail("openai embeddings failed", slept)
        Decoded(v) ==
            IF Len(v) > 0
            THEN [next |-> "return", slept |-> <<>>, err |-> "", vec |-> v,
                  c |-> IF c.dimension = 0 THEN [c EXCEPT !.dimension = Len(v)] ELSE c]
            ELSE Backoff("no embedding returned")
    IN  IF resp.net = "fail" THEN Backoff("transport")
        ELSE IF resp.status = 429 \/ resp.status >= 500
        THEN Throttled(<<RetryAfterDelay(attempt, resp.retryAfter)>>)
        ELSE IF resp.status >= 300 THEN Fail("openai embeddings failed", <<>>)
        ELSE IF ~resp.body.readable THEN Backoff("read")
        ELSE Decoded(ParseEmbedding(resp.body))

\* the answer to the request of an attempt, for a server that answers
\* script[1], script[2], ... and then goes on giving its last answer
AnswerAt(script, attempt) ==
    script[IF attempt + 1 > Len(script) THEN Len(script) ELSE attempt + 1]

\* Client.Embed as one call against such a server
RECURSIVE EmbedLoop(_, _, _, _)
EmbedLoop(c, attempt, script, slept) ==
    LET Stepped(r) ==
            IF r.next = "return"
            THEN [err |-> r.err, vec |-> r.vec, c |-> r.c,
                  slept |-> slept \o r.slept, requests |-> attempt + 1]
            ELSE IF attempt + 1 <= maxRetries
            THEN EmbedLoop(c, attempt + 1, script, slept \o r.slept)
            ELSE [err |-> "no embedding returned", vec |-> <<>>, c |-> r.c,
                  slept |-> slept \o r.slept, requests |-> attempt + 1]
    IN  Stepped(EmbedAttempt(c, attempt, AnswerAt(script, attempt)))

OpenAIEmbed(c, script) == EmbedLoop(c, 0, script, <<>>)

(***************************************************************************)
(* Texts used as inputs                                                    *)
(***************************************************************************)
\* "Cat sat. Dog ran! Cat ran?"
TextThree == <<"C","a","t"," ","s","a","t","."," ","D","o","g"," ","r","a","n","!"," ","C","a","t"," ","r","a","n","?">>
\* "The cat."
TextOne == <<"T","h","e"," ","c","a","t",".">>
\* "It is."
TextStop == <<"I","t"," ","i","s",".">>
\* " \n"
TextBlank == <<" ","\n">>
\* "dog"
TextBare == <<"d","o","g">>
\* "Dog. ox"
TextTail == <<"D","o","g","."," ","o","x">>
\* "A b. C d? E! F g. H."
TextFive == <<"A"," ","b","."," ","C"," ","d","?"," ","E","!"," ","F"," ","g","."," ","H",".">>

(***************************************************************************)
(* The files the service can be pointed at                                 *)
(***************************************************************************)
PathA == <<"a",".","t","x","t">>   \* a.txt
PathB == <<"b",".","T","X","T">>   \* b.TXT
PathC == <<"c",".","m","d">>   \* c.md
PathE == <<"e",".","t","x","t">>   \* e.txt
PathS == <<"s",".","t","x","t">>   \* s.txt
PathMissing == <<"m",".","t","x","t">>   \* m.txt
PatternTxt == <<"*",".","t","x","t">>   \* *.txt

\* the files that exist, with their contents
Files == {PathA, PathB, PathC, PathE, PathS}

FileContent(path) ==
    CASE path = PathA -> TextThree
      [] path = PathB -> TextOne
      [] path = PathC -> TextTail
      [] path = PathE -> TextBlank
      [] path = PathS -> TextStop

\* os.ReadFile
ReadFile(path) ==
    IF path \in Files THEN [err |-> "", data |-> FileContent(path)]
    ELSE [err |-> "no such file", data |-> <<>>]

\* filepath.Glob for a literal path or a pattern "*" + suffix: the existing
\* files that match, sorted; <<>> stands for nil (no match)
Glob(pattern) ==
    IF pattern # <<>> /\ Head(pattern) = "*"
    THEN SortStrings({f \in Files : HasSuffix(f, Tail(pattern))})
    ELSE IF pattern \in Files THEN <<pattern>> ELSE <<>>

\* hashString: the first 8 bytes of the SHA-1 of the path, in hex, for the
\* paths above
hashString(path) ==
    CASE path = PathA -> <<"c","f","c","7","b","4","8","8","5","3","8","4","9","5","7","a">>
      [] path = PathB -> <<"a","0","d","e","4","2","7","3","2","1","5","f","5","f","d","5">>
      [] path = PathC -> <<"6","c","5","b","5","3","f","5","6","4","a","8","8","8","8","5">>
      [] path = PathE -> <<"0","a","c","f","6","2","9","2","2","e","b","3","f","6","d","c">>
      [] path = PathS -> <<"4","d","8","1","d","3","e","0","6","d","7","f","0","e","c","d">>
      [] path = PathMissing -> <<"a","c","8","6","6","d","6","a","8","9","7","0","c","d","b","e">>
      [] path = PatternTxt -> <<"6","6","a","0","b","4","1","8","3","a","9","5","5","2","7","d">>

\* the loop over the matches with the suffix compared as it is spelled
RECURSIVE LoadMatchesCaseSensitive(_, _)
LoadMatchesCaseSensitive(matches, documents) ==
    LET Read(m, file) ==
            IF file.err # "" THEN [err |-> file.err, documents |-> documents]
            ELSE LoadMatchesCaseSensitive(Tail(matches),
                                          Append(documents,
                                                 [ID |-> hashString(m), Path |-> m,
                                                  Content |-> file.data]))
    IN  IF matches = <<>> THEN [err |-> "", documents |-> documents]
        ELSE IF ~HasSuffix(Head(matches), <<".","t","x","t">>)
        THEN LoadMatchesCaseSensitive(Tail(matches), documents)
        ELSE Read(Head(matches), ReadFile(Head(matches)))

(***************************************************************************)
(* The RAG service: loading, chunking, lexical ranking                     *)
(***************************************************************************)
\* IngestDocuments, the inner loop over the matches of one path
RECURSIVE LoadMatches(_, _)
LoadMatches(matches, documents) ==
    LET Read(m, file) ==
            IF file.err # "" THEN [err |-> file.err, documents |-> documents]
            ELSE LoadMatches(Tail(matches),
                             Append(documents,
                                    [ID |-> hashString(m), Path |-> m,
                                     Content |-> file.data]))
    IN  IF matches = <<>> THEN [err |-> "", documents |-> documents]
        ELSE IF ~HasSuffix(ToLower(Head(matches)), <<".","t","x","t">>)
        THEN LoadMatches(Tail(matches), documents)
        ELSE Read(Head(matches), ReadFile(Head(matches)))

\* IngestDocuments, the loop over the paths
RECURSIVE LoadPaths(_, _)
LoadPaths(paths, documents) ==
    LET Loaded(loaded) ==
            IF loaded.err # "" THEN loaded ELSE LoadPaths(Tail(paths), loaded.documents)
        Globbed(matches) ==
            Loaded(LoadMatches(IF matches = <<>> THEN <<Head(paths)>> ELSE matches,
                               documents))
    IN  IF paths = <<>> THEN [err |-> "", documents |-> documents]
        ELSE Globbed(Glob(Head(paths)))

\* IngestDocuments, the loop that chunks every document; returns = FALSE
\* when a Chunk call never returns
RECURSIVE ChunkAll(_, _, _, _)
ChunkAll(c, documents, allChunks, called) ==
    LET Chunked(r) ==
            IF ~r.returns THEN [returns |-> FALSE, chunks |-> <<>>, called |-> called + 1]
            ELSE ChunkAll(c, Tail(documents), allChunks \o r.chunks, called + 1)
    IN  IF documents = <<>>
        THEN [returns |-> TRUE, chunks |-> allChunks, called |-> called]
        ELSE Chunked(Chunk(c, Head(documents)))

\* sqrt of the service: six Newton steps from z = x, in thousandths
RECURSIVE Newton(_, _, _)
Newton(x, z, steps) ==
    IF steps = 0 THEN z ELSE Newton(x, (z + (x * 1000 * 1000) \div z) \div 2, steps - 1)

sqrt(x) == IF x <= 0 THEN 0 ELSE Newton(x, x * 1000, 6)

\* overlapOchiai from the sizes on: inter tokens shared by a query set of
\* qa tokens and a chunk set of ba tokens; the score counts 1e-9, to the
\* nearest thousandth below
ochiaiOfSizes(inter, qa, ba) ==
    IF qa = 0 \/ ba = 0 THEN 0
    ELSE 1000 * 1000 * ((inter * 1000 * 1000) \div ((sqrt(qa) * sqrt(ba)) \div 1000))

\* overlapOchiai
overlapOchiai(qset, text) ==
    LET Ochiai(seen) ==
            ochiaiOfSizes(Cardinality(seen \cap qset), Cardinality(qset), Cardinality(seen))
    IN  Ochiai(Range(FindAllTokens(ToLower(text))))

\* sort.Slice by descending score, for the up to 12 elements for which it is
\* an insertion sort: x moves left past the elements it is greater than
RECURSIVE InsertDesc(_, _)
InsertDesc(sorted, x) ==
    IF sorted # <<>> /\ x.score > sorted[Len(sorted)].score
    THEN Append(InsertDesc(SubSeq(sorted, 1, Len(sorted) - 1), x), sorted[Len(sorted)])
    ELSE Append(sorted, x)

RECURSIVE SortDesc(_, _)
SortDesc(pairs, sorted) ==
    IF pairs = <<>> THEN sorted ELSE SortDesc(Tail(pairs), InsertDesc(sorted, Head(pairs)))

\* lexicalSearch over the chunks the service keeps
lexicalSearch(chunks, query, topK) ==
    LET k0 == IF topK <= 0 THEN 5 ELSE topK
        Top(scores) ==
            [i \in 1 .. (IF k0 > Len(scores) THEN Len(scores) ELSE k0) |->
                [Chunk |-> chunks[scores[i].idx], Score |-> scores[i].score]]
        Scored(qset) ==
            Top(SortDesc([k \in DOMAIN chunks |->
                             [idx |-> k, score |-> overlapOchiai(qset, chunks[k].Text)]],
                         <<>>))
    IN  Scored(toTokenSet(query))

(***************************************************************************)
(* The RAG service: the components it is wired to                          *)
(***************************************************************************)
\* The state of a service and its components is a record st: chunks (the
\* chunk list the service keeps), tfidf, openai (the embedders), memory,
\* qdrant (the stores) and server (the Qdrant collection).  A wiring w names
\* the embedder and the store in use, and holds the chunker.
\*
\* A call is logged as [op, arg, err, out].
Call(op, arg, err, out) == [op |-> op, arg |-> arg, err |-> err, out |-> out]

\* embedder.Prepare
EmbedderPrepare(w, st, corpus) ==
    LET Prepared(r) == [err |-> r.err, st |-> [st EXCEPT !.tfidf = r.e]]
    IN  IF w.embedder = "tfidf" THEN Prepared(Prepare(st.tfidf, corpus))
        ELSE [err |-> "", st |-> st]

\* embedder.Dimension
EmbedderDimension(w, st) ==
    IF w.embedder = "tfidf" THEN st.tfidf.dimension ELSE st.openai.dimension

\* embedder.Embed; script is what the embeddings server answers
EmbedderEmbed(w, st, text, script) ==
    LET Local(r) == [err |-> r.err, vec |-> r.vec, st |-> st]
        Remote(r) == [err |-> r.err, vec |-> r.vec, st |-> [st EXCEPT !.openai = r.c]]
    IN  IF w.embedder = "tfidf" THEN Local(TfidfEmbed(st.tfidf, text))
        ELSE Remote(OpenAIEmbed(st.openai, script))

\* store.Init
StoreInit(w, st, dimension, net) ==
    LET Local(r) == [err |-> r.err, st |-> [st EXCEPT !.memory = r.s]]
        Remote(r) == [err |-> r.err, st |-> [st EXCEPT !.qdrant = r.q, !.server = r.srv]]
    IN  IF w.store = "memory" THEN Local(MemInit(st.memory, dimension))
        ELSE Remote(QdInit(st.qdrant, st.server, dimension, net))

\* store.Clear
StoreClear(w, st, net) ==
    LET Local(r) == [err |-> r.err, st |-> [st EXCEPT !.memory = r.s]]
        Remote(r) == [err |-> r.err, st |-> [st EXCEPT !.qdrant = r.q, !.server = r.srv]]
    IN  IF w.store = "memory" THEN Local(MemClear(st.memory))
        ELSE Remote(QdClear(st.qdrant, st.server, net))

\* store.Upsert
StoreUpsert(w, st, chunks, vectors, net) ==
    LET Local(r) == [err |-> r.err, st |-> [st EXCEPT !.memory = r.s]]
        Remote(r) == [err |-> r.err, st |-> [st EXCEPT !.qdrant = r.q, !.server = r.srv]]
    IN  IF w.store = "memory" THEN Local(MemUpsert(st.memory, chunks, vectors))
        ELSE Remote(QdUpsert(st.qdrant, st.server, chunks, vectors, net))

\* store.Search
StoreSearch(w, st, vector, topK, net) ==
    IF w.store = "memory" THEN MemSearch(st.memory, vector, topK)
    ELSE QdSearch(st.qdrant, st.server, vector, topK, net)

(***************************************************************************)
(* RAGServiceImpl.IngestDocuments and RAGServiceImpl.Query                 *)
(***************************************************************************)
\* what a call leaves: whether it returns, its error, its results, the
\* state, and the calls it made on its components, in order
Outcome(returns, err, results, st, calls) ==
    [returns |-> returns, err |-> err, results |-> results, st |-> st, calls |-> calls]

\* the script the embeddings server follows for the k-th chunk of a plan
ScriptFor(plan, k) == plan[((k - 1) % Len(plan)) + 1]

\* the embedding loop with a failed Embed skipped instead of returned
RECURSIVE EmbedChunksSkippingFailures(_, _, _, _, _, _, _)
EmbedChunksSkippingFailures(w, st, allChunks, k, plan, vectors, calls) ==
    LET Embedded(r, c) ==
            EmbedChunksSkippingFailures(w, r.st, allChunks, k + 1, plan,
                                        IF r.err # "" THEN vectors
                                        ELSE Append(vectors, r.vec), c)
        Logged(r) == Embedded(r, Append(calls, Call("Embed", allChunks[k].Text, r.err, r.vec)))
    IN  IF k > Len(allChunks)
        THEN [err |-> "", st |-> st, vectors |-> vectors, calls |-> calls]
        ELSE Logged(EmbedderEmbed(w, st, allChunks[k].Text, ScriptFor(plan, k)))

\* IngestDocuments, the loop that embeds chunk k and the ones after it
RECURSIVE EmbedChunks(_, _, _, _, _, _, _)
EmbedChunks(w, st, allChunks, k, plan, vectors, calls) ==
    LET Embedded(r, c) ==
            IF r.err # ""
            THEN [err |-> r.err, st |-> r.st, vectors |-> vectors, calls |-> c]
            ELSE EmbedChunks(w, r.st, allChunks, k + 1, plan, Append(vectors, r.vec), c)
        Logged(r) == Embedded(r, Append(calls, Call("Embed", allChunks[k].Text, r.err, r.vec)))
    IN  IF k > Len(allChunks)
        THEN [err |-> "", st |-> st, vectors |-> vectors, calls |-> calls]
        ELSE Logged(EmbedderEmbed(w, st, allChunks[k].Text, ScriptFor(plan, k)))

\* IngestDocuments from store.Upsert on, store.Clear left out
IngestStoreWithoutClear(w, st, allChunks, vectors, env, calls) ==
    LET Upserted(upsert, c2) ==
            IF upsert.err # "" THEN Outcome(TRUE, upsert.err, <<>>, upsert.st, c2)
            ELSE Outcome(TRUE, "", <<>>, upsert.st,
                         Append(c2, Call("Summarize", <<>>, "", <<>>)))
        Upserting(upsert) ==
            Upserted(upsert,
                     Append(calls, Call("Upsert", [chunks |-> allChunks, vectors |-> vectors],
                                        upsert.err, <<>>)))
    IN  Upserting(StoreUpsert(w, st, allChunks, vectors, env.upsert))

\* IngestDocuments from store.Clear on
IngestStore(w, st, allChunks, vectors, env, calls) ==
    LET Upserted(upsert, c2) ==
            IF upsert.err # "" THEN Outcome(TRUE, upsert.err, <<>>, upsert.st, c2)
            ELSE Outcome(TRUE, "", <<>>, upsert.st,
                         Append(c2, Call("Summarize", <<>>, "", <<>>)))
        Upserting(upsert, c1) ==
            Upserted(upsert,
                     Append(c1, Call("Upsert", [chunks |-> allChunks, vectors |-> vectors],
                                     upsert.err, <<>>)))
        Cleared(clear, c1) ==
            IF clear.err # "" THEN Outcome(TRUE, clear.err, <<>>, clear.st, c1)
            ELSE Upserting(StoreUpsert(w, clear.st, allChunks, vectors, env.upsert), c1)
        Clearing(clear) ==
            Cleared(clear, Append(calls, Call("Clear", <<>>, clear.err, <<>>)))
    IN  Clearing(StoreClear(w, st, env.clear))

\* IngestDocuments from "Keep chunks for fallback ranking" on
IngestChunks(w, st, allChunks, env, calls) ==
    LET allTexts == [k \in DOMAIN allChunks |-> allChunks[k].Text]
        Embedded(emb) ==
            IF emb.err # "" THEN Outcome(TRUE, emb.err, <<>>, emb.st, emb.calls)
            ELSE IngestStore(w, emb.st, allChunks, emb.vectors, env, emb.calls)
        Initialised(init, c2) ==
            IF init.err # "" THEN Outcome(TRUE, init.err, <<>>, init.st, c2)
            ELSE Embedded(EmbedChunks(w, init.st, allChunks, 1, env.plan, <<>>, c2))
        Initialising(init, dim, c1) ==
            Initialised(init, Append(c1, Call("Init", dim, init.err, <<>>)))
        Sized(prep, dim, c1) ==
            Initialising(StoreInit(w, prep.st, dim, env.init), dim, c1)
        Prepared(prep, c1) ==
            IF prep.err # "" THEN Outcome(TRUE, prep.err, <<>>, prep.st, c1)
            ELSE Sized(prep, EmbedderDimension(w, prep.st), c1)
        Preparing(prep) ==
            Prepared(prep, Append(calls, Call("Prepare", allTexts, prep.err, <<>>)))
    IN  Preparing(EmbedderPrepare(w, [st EXCEPT !.chunks = allChunks], allTexts))

\* RAGServiceImpl.IngestDocuments
IngestDocuments(w, st, paths, env) ==
    LET Calls(documents, called) ==
            [k \in 1 .. called |-> Call("Chunk", documents[k].Path, "", <<>>)]
        Chunked(documents, chunked) ==
            IF ~chunked.returns
            THEN Outcome(FALSE, "", <<>>, st, Calls(documents, chunked.called))
            ELSE IngestChunks(w, st, chunked.chunks, env, Calls(documents, chunked.called))
        Loaded(loaded) ==
            IF loaded.err # "" THEN Outcome(TRUE, loaded.err, <<>>, st, <<>>)
            ELSE IF Len(loaded.documents) = 0
            THEN Outcome(TRUE, "no .txt documents found", <<>>, st, <<>>)
            ELSE Chunked(loaded.documents, ChunkAll(w.chunker, loaded.documents, <<>>, 0))
    IN  Loaded(LoadPaths(paths, <<>>))

\* the threshold of Query on the scores, 1e-9
ScoreEpsilon == 1

\* Query without the check of the query vector for zero
QueryWithoutZeroCheck(w, st, query, topK, env) ==
    LET Lexical(emb, calls) ==
            Outcome(TRUE, "", lexicalSearch(st.chunks, query, topK), emb.st, calls)
        Searched(emb, res, c2) ==
            IF res.err # "" THEN Outcome(TRUE, res.err, <<>>, emb.st, c2)
            ELSE IF \A k \in DOMAIN res.results : ~(res.results[k].Score > ScoreEpsilon)
            THEN Lexical(emb, c2)
            ELSE Outcome(TRUE, "", res.results, emb.st, c2)
        Searching(emb, res, c1) ==
            Searched(emb, res,
                     Append(c1, Call("Search", [vector |-> emb.vec, topK |-> topK],
                                     res.err, res.results)))
        Embedded(emb, c1) ==
            IF emb.err # "" THEN Outcome(TRUE, emb.err, <<>>, emb.st, c1)
            ELSE Searching(emb, StoreSearch(w, emb.st, emb.vec, topK, env.search), c1)
        Embedding(emb) == Embedded(emb, <<Call("Embed", query, emb.err, emb.vec)>>)
    IN  Embedding(EmbedderEmbed(w, st, query, env.script))

\* RAGServiceImpl.Query
Query(w, st, query, topK, env) ==
    LET Lexical(emb, calls) ==
            Outcome(TRUE, "", lexicalSearch(st.chunks, query, topK), emb.st, calls)
        Searched(emb, res, c2) ==
            IF res.err # "" THEN Outcome(TRUE, res.err, <<>>, emb.st, c2)
            ELSE IF \A k \in DOMAIN res.results : ~(res.results[k].Score > ScoreEpsilon)
            THEN Lexical(emb, c2)
            ELSE Outcome(TRUE, "", res.results, emb.st, c2)
        Searching(emb, res, c1) ==
            Searched(emb, res,
                     Append(c1, Call("Search", [vector |-> emb.vec, topK |-> topK],
                                     res.err, res.results)))
        Embedded(emb, c1) ==
            IF emb.err # "" THEN Outcome(TRUE, emb.err, <<>>, emb.st, c1)
            ELSE IF \A k \in DOMAIN emb.vec : emb.vec[k] = 0 THEN Lexical(emb, c1)
            ELSE Searching(emb, StoreSearch(w, emb.st, emb.vec, topK, env.search), c1)
        Embedding(emb) == Embedded(emb, <<Call("Embed", query, emb.err, emb.vec)>>)
    IN  Embedding(EmbedderEmbed(w, st, query, env.script))

(***************************************************************************)
(* Specification Spec: a service, and the calls made on it                 *)
(***************************************************************************)
\* NewRAGService over fresh components
NewRAGService ==
    [chunks |-> <<>>, tfidf |-> NewEmbedder, openai |-> NewClient,
     memory |-> NewStorage, qdrant |-> NewQdrantStorage, server |-> NoCollection]

\* the services tried: every pair of embedder and store with one sentence
\* per chunk, and the TF-IDF embedder over the in-memory store with the other
\* chunker settings (sentences per chunk, overlap)
Wiring(embedder, store, sentencesPerChunk, overlapSentences) ==
    [embedder |-> embedder, store |-> store,
     chunker |-> NewSentenceChunker(sentencesPerChunk, overlapSentences)]

Wirings ==
    {Wiring(e, s, 1, 0) : e \in {"tfidf", "openai"}, s \in {"memory", "qdrant"}}
        \cup {Wiring("tfidf", "memory", 2, 1), Wiring("tfidf", "memory", 0, -1),
              Wiring("tfidf", "memory", 1, 1)}

\* the path lists handed to IngestDocuments: all of them for a service on
\* the TF-IDF embedder and the in-memory store, those that differ in the
\* chunks they give for a service with a remote component
PathLists(w) ==
    IF w.embedder = "tfidf" /\ w.store = "memory"
    THEN {<<PathA>>, <<PathB>>, <<PathA, PathB>>, <<PathC>>, <<PathC, PathB>>, <<PathE>>,
          <<PathS>>, <<PathA, PathMissing>>, <<PatternTxt>>, <<PathA, PathA>>}
    ELSE {<<PathA>>, <<PathA, PathB>>, <<PathC>>}

\* the queries
QueryCat == <<"c","a","t">>   \* cat
QueryCatDog == <<"C","a","t",","," ","d","o","g","!">>   \* Cat, dog!
QueryZebra == <<"z","e","b","r","a">>   \* zebra
QueryThe == <<"t","h","e">>   \* the

Queries(w) ==
    IF w.embedder = "tfidf" /\ w.store = "memory"
    THEN {QueryCat, QueryCatDog, QueryZebra, QueryThe}
    ELSE {QueryCat, QueryZebra}

TopKs == {0, 2}

\* what the embeddings server answers: a vector, or nothing at all
VecEast == <<1000, 0>>
VecNorth == <<0, 1000>>
VecWest == <<-1000, 0>>
VecZero == <<0, 0>>
VecShort == <<1000>>

Gives(v) == <<Answer(200, <<>>, Json(<<v>>, <<>>))>>

Down == <<NoAnswer>>

\* per ingestion: the script for the first chunk, the second, ..., cyclically
EmbedPlans(w) ==
    IF w.embedder = "tfidf" THEN {<<Down>>}
    ELSE IF w.store = "qdrant" THEN {<<Gives(VecEast)>>, <<Gives(VecEast), Down>>}
    ELSE {<<Gives(VecEast)>>, <<Gives(VecEast), Gives(VecNorth)>>, <<Gives(VecWest)>>,
          <<Gives(VecEast), Down>>, <<Gives(VecEast), Gives(VecShort)>>}

QueryScripts(w) ==
    IF w.embedder = "tfidf" THEN {Down}
    ELSE {Gives(VecEast), Gives(VecWest), Gives(VecZero), Down,
          <<Answer(429, <<>>, NoBody)>> \o Gives(VecNorth)}

\* whether each request of an ingestion to the Qdrant server gets through
StoreNets(w) ==
    IF w.store = "memory" THEN {[init |-> "ok", clear |-> "ok", upsert |-> "ok"]}
    ELSE {[init |-> "ok", clear |-> "ok", upsert |-> "ok"],
          [init |-> "down", clear |-> "ok", upsert |-> "ok"],
          [init |-> "ok", clear |-> "down", upsert |-> "ok"],
          [init |-> "ok", clear |-> "refused", upsert |-> "ok"],
          [init |-> "ok", clear |-> "ok", upsert |-> "down"]}

IngestEnvs(w) ==
    {[plan |-> p, init |-> n.init, clear |-> n.clear, upsert |-> n.upsert] :
        p \in EmbedPlans(w), n \in StoreNets(w)}

QueryEnvs(w) ==
    {[script |-> sc, search |-> n] :
        sc \in QueryScripts(w), n \in IF w.store = "memory" THEN {"ok"} ELSE {"ok", "down"}}

NoCall ==
    [op |-> "none", arg |-> <<>>, topK |-> 0, returns |-> TRUE, err |-> "",
     results |-> <<>>, calls |-> <<>>]

Init ==
    /\ wiring \in Wirings
    /\ svc = NewRAGService
    /\ last = NoCall
    /\ ingested = FALSE
    /\ loop = LoopIdle

\* a call of IngestDocuments; a call that does not return leaves the caller
\* inside it for good
Ingest(paths, env) ==
    LET Returned(r) ==
            /\ svc' = r.st
            /\ last' = [op |-> "IngestDocuments", arg |-> paths, topK |-> 0,
                        returns |-> r.returns, err |-> r.err, results |-> <<>>,
                        calls |-> r.calls]
            /\ ingested' = (ingested \/ (r.returns /\ r.err = ""))
    IN  /\ last.returns
        /\ Returned(IngestDocuments(wiring, svc, paths, env))
        /\ UNCHANGED <<wiring, loop>>

\* a call of Query
Ask(query, topK, env) ==
    LET Returned(r) ==
            /\ svc' = r.st
            /\ last' = [op |-> "Query", arg |-> query, topK |-> topK,
                        returns |-> r.returns, err |-> r.err, results |-> r.results,
                        calls |-> r.calls]
    IN  /\ last.returns
        /\ Returned(Query(wiring, svc, query, topK, env))
        /\ UNCHANGED <<wiring, ingested, loop>>

Next ==
    \/ \E paths \in PathLists(wiring), env \in IngestEnvs(wiring) : Ingest(paths, env)
    \/ \E query \in Queries(wiring), topK \in TopKs, env \in QueryEnvs(wiring) :
          Ask(query, topK, env)

Spec == Init /\ [][Next]_vars

(***************************************************************************)
(* Specification SpecChunk: one Chunk call, one loop iteration per step    *)
(***************************************************************************)
\* bounds of the inputs tried
MaxSentencesPerChunk == 3

MaxOverlap == 2

MaxChunks == 6

ChunkContents == {TextThree, TextOne, TextBlank, TextBare, TextTail, TextFive, <<>>}

\* the document id the chunk specification uses
ChunkDocID == <<"d">>

\* Chunk up to the loop: sentences split and trimmed, or the early return
ChunkCall(sentencesPerChunk, overlapSentences, content) ==
    /\ loop.pc \in {"idle", "returned"}
    /\ UNCHANGED <<wiring, svc, last, ingested>>
    /\ LET c == NewSentenceChunker(sentencesPerChunk, overlapSentences)
           sentences == Sentences(content)
       IN  loop' = [pc |-> IF sentences = <<>> THEN "returned" ELSE "loop",
                    c |-> c, content |-> content, sentences |-> sentences,
                    i |-> 0, idx |-> 0, chunks |-> <<>>]

\* one iteration of the loop of Chunk
ChunkIteration ==
    /\ loop.pc = "loop"
    /\ Len(loop.chunks) < MaxChunks
    /\ UNCHANGED <<wiring, svc, last, ingested>>
    /\ LET n     == Len(loop.sentences)
           end   == ChunkEnd(loop.c, n, loop.i)
           grown == Append(loop.chunks,
                           MakeChunk(ChunkDocID, loop.sentences, loop.i, end, loop.idx))
       IN  IF ~(loop.i < n)
           THEN loop' = [loop EXCEPT !.pc = "returned"]
           ELSE IF end = n
           THEN loop' = [loop EXCEPT !.pc = "returned", !.chunks = grown]
           ELSE loop' = [loop EXCEPT !.chunks = grown,
                                     !.i = NextStart(loop.c, end),
                                     !.idx = loop.idx + 1]

InitChunk ==
    /\ wiring = CHOOSE w \in Wirings : TRUE
    /\ svc = NewRAGService
    /\ last = NoCall
    /\ ingested = FALSE
    /\ loop = LoopIdle

NextChunk ==
    \/ \E spc \in -1 .. MaxSentencesPerChunk, ov \in -1 .. MaxOverlap,
          content \in ChunkContents : ChunkCall(spc, ov, content)
    \/ ChunkIteration

SpecChunk == InitChunk /\ [][NextChunk]_vars

(***************************************************************************)
(* Specification SpecTfidf: Prepare and Embed called on one TF-IDF         *)
(* embedder, in any order                                                  *)
(***************************************************************************)
\* the longest corpus handed to Prepare
MaxCorpus == 2

\* the texts a corpus is made of
CorpusTexts == {TextThree, TextOne, TextStop, TextTail}

Corpora == UNION {[1 .. n -> CorpusTexts] : n \in 0 .. MaxCorpus}

\* the texts handed to Embed
EmbedTexts == {TextThree, TextOne, TextStop, TextTail, TextBlank, QueryZebra, QueryCatDog, <<>>}

\* a call of Embedder.Prepare; last.results keeps the vocabulary the embedder
\* held before the call
CallPrepare(corpus) ==
    LET Returned(r) ==
            /\ svc' = [svc EXCEPT !.tfidf = r.e]
            /\ last' = [op |-> "Prepare", arg |-> corpus, topK |-> 0, returns |-> TRUE,
                        err |-> r.err, results |-> svc.tfidf.vocabulary,
                        calls |-> <<>>]
    IN  /\ Returned(Prepare(svc.tfidf, corpus))
        /\ UNCHANGED <<wiring, ingested, loop>>

\* a call of Embedder.Embed
CallEmbed(text) ==
    LET Returned(r) ==
            last' = [op |-> "Embed", arg |-> text, topK |-> 0, returns |-> TRUE,
                     err |-> r.err, results |-> r.vec, calls |-> <<>>]
    IN  /\ Returned(TfidfEmbed(svc.tfidf, text))
        /\ UNCHANGED <<wiring, svc, ingested, loop>>

InitTfidf ==
    /\ wiring = Wiring("tfidf", "memory", 1, 0)
    /\ svc = NewRAGService
    /\ last = NoCall
    /\ ingested = FALSE
    /\ loop = LoopIdle

NextTfidf ==
    \/ \E corpus \in Corpora : CallPrepare(corpus)
    \/ \E text \in EmbedTexts : CallEmbed(text)

SpecTfidf == InitTfidf /\ [][NextTfidf]_vars

(***************************************************************************)
(* Specification SpecEmbed: one remote Embed call, one request per step    *)
(***************************************************************************)
\* what the embeddings server answers to a request
Answers ==
    {NoAnswer,
     Answer(429, <<>>, NoBody),
     Answer(429, <<"1">>, NoBody),
     Answer(503, <<"2">>, NoBody),
     Answer(503, <<"x">>, NoBody),
     Answer(404, <<>>, NoBody),
     Answer(200, <<>>, NoBody),
     Answer(200, <<>>, Unreadable),
     Answer(200, <<>>, Json(<<>>, <<>>)),
     Answer(200, <<>>, Json(<<VecEast>>, <<>>)),
     Answer(200, <<>>, Json(<<>>, VecShort))}

\* Client.Embed up to its loop
EmbedCall ==
    /\ loop.pc \in {"idle", "returned"}
    /\ loop' = [pc |-> "request", attempt |-> 0, requests |-> 0, answer |-> NoAnswer,
                slept |-> <<>>, sleeps |-> 0, err |-> "", vec |-> <<>>,
                before |-> svc.openai]
    /\ UNCHANGED <<wiring, svc, last, ingested>>

\* one iteration of the loop of Client.Embed: the request, the answer resp
\* of the server, and what the client does with it
EmbedRequest(resp) ==
    LET Stepped(r) ==
            /\ svc' = [svc EXCEPT !.openai = r.c]
            /\ loop' = [pc       |-> IF r.next = "continue" /\ loop.attempt + 1 <= maxRetries
                                     THEN "request" ELSE "returned",
                        attempt  |-> IF r.next = "continue" THEN loop.attempt + 1
                                     ELSE loop.attempt,
                        requests |-> loop.requests + 1,
                        answer   |-> resp,
                        slept    |-> r.slept,
                        sleeps   |-> loop.sleeps + Len(r.slept),
                        err      |-> IF r.next = "return" THEN r.err
                                     ELSE IF loop.attempt + 1 <= maxRetries THEN ""
                                     ELSE "no embedding returned",
                        vec      |-> r.vec,
                        before   |-> loop.before]
    IN  /\ loop.pc = "request"
        /\ Stepped(EmbedAttempt(svc.openai, loop.attempt, resp))
        /\ UNCHANGED <<wiring, last, ingested>>

InitEmbed ==
    /\ wiring = Wiring("openai", "memory", 1, 0)
    /\ svc = NewRAGService
    /\ last = NoCall
    /\ ingested = FALSE
    /\ loop = LoopIdle

NextEmbed ==
    \/ EmbedCall
    \/ \E resp \in Answers : EmbedRequest(resp)

SpecEmbed == InitEmbed /\ [][NextEmbed]_vars

\* the HTTP client carries a timeout, so every request is answered or fails
\* and the loop takes its next step
SpecEmbedFair == InitEmbed /\ [][NextEmbed]_vars /\ WF_vars(NextEmbed)

(***************************************************************************)
(* Specification SpecClient: Embed and Prepare called on one remote        *)
(* embedder, each call in one step against a server that follows a script  *)
(***************************************************************************)
\* the longest script; the server repeats the last answer of its script
MaxScript == 2

Scripts == UNION {[1 .. n -> Answers] : n \in 1 .. MaxScript}

\* a call of Client.Embed; last keeps the number of requests made, the
\* delays slept in order, and the client as it was before the call
ClientEmbed(script) ==
    LET Returned(r) ==
            /\ svc' = [svc EXCEPT !.openai = r.c]
            /\ last' = [op |-> "Embed", arg |-> script, topK |-> 0, returns |-> TRUE,
                        err |-> r.err, results |-> r.vec, calls |-> <<>>,
                        requests |-> r.requests, slept |-> r.slept,
                        before |-> svc.openai]
    IN  /\ Returned(OpenAIEmbed(svc.openai, script))
        /\ UNCHANGED <<wiring, ingested, loop>>

\* a call of Client.Prepare
ClientPrepare(corpus) ==
    LET Returned(r) ==
            /\ svc' = r.st
            /\ last' = [op |-> "Prepare", arg |-> corpus, topK |-> 0, returns |-> TRUE,
                        err |-> r.err, results |-> <<>>, calls |-> <<>>,
                        requests |-> 0, slept |-> <<>>, before |-> svc.openai]
    IN  /\ Returned(EmbedderPrepare(wiring, svc, corpus))
        /\ UNCHANGED <<wiring, ingested, loop>>

InitClient ==
    /\ wiring = Wiring("openai", "memory", 1, 0)
    /\ svc = NewRAGService
    /\ last = NoCall
    /\ ingested = FALSE
    /\ loop = LoopIdle

NextClient ==
    \/ \E script \in Scripts : ClientEmbed(script)
    \/ \E corpus \in Corpora : ClientPrepare(corpus)

SpecClient == InitClient /\ [][NextClient]_vars

(***************************************************************************)
(* Specification SpecStore: Init, Upsert, Clear and Search called on one   *)
(* in-memory store, in any order                                           *)
(***************************************************************************)
\* the most entries the store is let to hold
MaxStored == 6

\* a vector that is not of unit length, and the vector of no components
VecDouble == <<2000, 0>>
VecNone == <<>>

\* the chunks handed to Upsert
StoreChunk(i) ==
    [DocumentID |-> <<"d">>, ChunkID |-> <<"d", ":">> \o Itoa(i),
     Text |-> <<"t">> \o Itoa(i), Index |-> i]

Batch(ids, vectors) ==
    [chunks |-> [k \in DOMAIN ids |-> StoreChunk(ids[k])], vectors |-> vectors]

\* the arguments of Upsert: batches of one to three entries of dimension 2,
\* 1 and 0, one chunk handed in twice, and batches whose lists differ in
\* length or that hold a vector of another length
StoreBatches ==
    {Batch(<<>>, <<>>),
     Batch(<<0>>, <<VecEast>>),
     Batch(<<0, 1>>, <<VecEast, VecNorth>>),
     Batch(<<2, 3>>, <<VecWest, VecEast>>),
     Batch(<<4, 0>>, <<VecDouble, VecEast>>),
     Batch(<<5, 6, 7>>, <<VecEast, VecEast, VecNorth>>),
     Batch(<<8, 9, 10>>, <<VecNorth, VecWest, VecEast>>),
     Batch(<<1>>, <<VecShort>>),
     Batch(<<0, 1>>, <<VecShort, VecShort>>),
     Batch(<<0>>, <<VecNone>>),
     Batch(<<0>>, <<>>),
     Batch(<<0>>, <<VecEast, VecNorth>>),
     Batch(<<0, 1>>, <<VecEast, VecShort>>),
     Batch(<<0, 1>>, <<VecShort, VecEast>>)}

\* the arguments of Init and of Search
StoreDimensions == {-1, 0, 1, 2}

SearchVectors == {VecEast, VecNorth, VecWest, VecShort}

SearchTopKs == {0, 1, 2}

\* what a call on the store leaves in last: the call, its error and results,
\* and the number of entries the store held before it
StoreCall(op, arg, topK, err, results) ==
    [op |-> op, arg |-> arg, topK |-> topK, returns |-> TRUE, err |-> err,
     results |-> results, calls |-> <<>>, held |-> Len(svc.memory.vectors)]

\* a call of Storage.Init
CallInit(dimension) ==
    LET Returned(r) ==
            /\ svc' = [svc EXCEPT !.memory = r.s]
            /\ last' = StoreCall("Init", dimension, 0, r.err, <<>>)
    IN  /\ Returned(MemInit(svc.memory, dimension))
        /\ UNCHANGED <<wiring, ingested, loop>>

\* a call of Storage.Upsert
CallUpsert(batch) ==
    LET Returned(r) ==
            /\ svc' = [svc EXCEPT !.memory = r.s]
            /\ last' = StoreCall("Upsert", batch, 0, r.err, <<>>)
    IN  /\ Len(svc.memory.vectors) + Len(batch.vectors) <= MaxStored
        /\ Returned(MemUpsert(svc.memory, batch.chunks, batch.vectors))
        /\ UNCHANGED <<wiring, ingested, loop>>

\* a call of Storage.Clear
CallClear ==
    LET Returned(r) ==
            /\ svc' = [svc EXCEPT !.memory = r.s]
            /\ last' = StoreCall("Clear", <<>>, 0, r.err, <<>>)
    IN  /\ Returned(MemClear(svc.memory))
        /\ UNCHANGED <<wiring, ingested, loop>>

\* a call of Storage.Search
CallSearch(vector, topK) ==
    LET Returned(r) == last' = StoreCall("Search", vector, topK, r.err, r.results)
    IN  /\ Returned(MemSearch(svc.memory, vector, topK))
        /\ UNCHANGED <<wiring, svc, ingested, loop>>

InitStore ==
    /\ wiring = Wiring("openai", "memory", 1, 0)
    /\ svc = NewRAGService
    /\ last = NoCall
    /\ ingested = FALSE
    /\ loop = LoopIdle

NextStore ==
    \/ \E dimension \in StoreDimensions : CallInit(dimension)
    \/ \E batch \in StoreBatches : CallUpsert(batch)
    \/ CallClear
    \/ \E vector \in SearchVectors, topK \in SearchTopKs : CallSearch(vector, topK)

SpecStore == InitStore /\ [][NextStore]_vars

(***************************************************************************)
(* Specification SpecLock: goroutines calling Init, Upsert, Clear and      *)
(* Search on one in-memory store, one lock operation or one access to the  *)
(* store's fields per step                                                 *)
(***************************************************************************)
\* the number of goroutines, and the most entries the store is let to hold
MaxCallers == 2

MaxHeld == 2

Callers == 1 .. MaxCallers

\* sync.RWMutex: the goroutine holding the write lock (0 when none) and the
\* goroutines holding the read lock
NewRWMutex == [writer |-> 0, readers |-> {}]

\* a goroutine outside the store
CallerIdle ==
    [pc |-> "idle", op |-> "none", arg |-> <<>>, topK |-> 0, err |-> "",
     results |-> <<>>, scores |-> <<>>, idxs |-> <<>>, seen |-> NewStorage]

\* the calls made
LockCalls ==
    {[op |-> "Init", arg |-> 2, topK |-> 0],
     [op |-> "Init", arg |-> 0, topK |-> 0],
     [op |-> "Upsert", arg |-> Batch(<<0>>, <<VecEast>>), topK |-> 0],
     [op |-> "Upsert", arg |-> Batch(<<1, 2>>, <<VecNorth, VecWest>>), topK |-> 0],
     [op |-> "Upsert", arg |-> Batch(<<0>>, <<>>), topK |-> 0],
     [op |-> "Upsert", arg |-> Batch(<<0>>, <<VecShort>>), topK |-> 0],
     [op |-> "Clear", arg |-> <<>>, topK |-> 0],
     [op |-> "Search", arg |-> VecEast, topK |-> 0],
     [op |-> "Search", arg |-> VecNorth, topK |-> 1]}

\* the goroutine p with its record changed
Moved(p, rec) == [loop EXCEPT !.proc[p] = rec]

\* a call up to its lock operation: the checks Init and Upsert make on
\* their arguments before they lock
GoCall(p, call) ==
    LET me == loop.proc[p]
        Entered(pc) ==
            [CallerIdle EXCEPT !.pc = pc, !.op = call.op, !.arg = call.arg,
                               !.topK = call.topK]
        Refused(err) == [CallerIdle EXCEPT !.pc = "done", !.op = call.op, !.err = err]
    IN  /\ me.pc \in {"idle", "done"}
        /\ loop' = Moved(p,
              IF call.op = "Init" /\ call.arg <= 0
              THEN Refused("invalid dimension")
              ELSE IF call.op = "Upsert" /\ Len(call.arg.chunks) # Len(call.arg.vectors)
              THEN Refused("chunks and vectors length mismatch")
              ELSE IF call.op = "Search" THEN Entered("rlock")
              ELSE Entered("lock"))
        /\ UNCHANGED <<wiring, svc, last, ingested>>

\* the write lock taken as a read lock
LockAsReader(p) ==
    LET me == loop.proc[p]
    IN  /\ me.pc = "lock"
        /\ loop.mu.writer = 0
        /\ me.op = "Upsert" =>
              Len(svc.memory.vectors) + Len(me.arg.vectors) <= MaxHeld
        /\ loop' = [loop EXCEPT !.mu.readers = loop.mu.readers \cup {p},
                                !.proc[p].pc = CASE me.op = "Init" -> "init_dimension"
                                                 [] me.op = "Upsert" -> "upsert_check"
                                                 [] me.op = "Clear" -> "clear_vectors",
                                !.proc[p].seen = svc.memory]
        /\ UNCHANGED <<wiring, svc, last, ingested>>

\* s.mu.Lock() returning: no goroutine holds the lock
Lock(p) ==
    LET me == loop.proc[p]
    IN  /\ me.pc = "lock"
        /\ loop.mu.writer = 0
        /\ loop.mu.readers = {}
        /\ me.op = "Upsert" =>
              Len(svc.memory.vectors) + Len(me.arg.vectors) <= MaxHeld
        /\ loop' = [loop EXCEPT !.mu.writer = p,
                                !.proc[p].pc = CASE me.op = "Init" -> "init_dimension"
                                                 [] me.op = "Upsert" -> "upsert_check"
                                                 [] me.op = "Clear" -> "clear_vectors",
                                !.proc[p].seen = svc.memory]
        /\ UNCHANGED <<wiring, svc, last, ingested>>

\* s.mu.RLock() returning: no goroutine holds the write lock
RLock(p) ==
    LET me == loop.proc[p]
    IN  /\ me.pc = "rlock"
        /\ loop.mu.writer = 0
        /\ loop' = [loop EXCEPT !.mu.readers = loop.mu.readers \cup {p},
                                !.proc[p].pc = "search_scores",
                                !.proc[p].seen = svc.memory]
        /\ UNCHANGED <<wiring, svc, last, ingested>>

\* Init inside the lock: one assignment per step
InitStep(p) ==
    LET me == loop.proc[p]
    IN  /\ me.pc \in {"init_dimension", "init_vectors", "init_chunks"}
        /\ svc' = CASE me.pc = "init_dimension" -> [svc EXCEPT !.memory.dimension = me.arg]
                     [] me.pc = "init_vectors" -> [svc EXCEPT !.memory.vectors = <<>>]
                     [] me.pc = "init_chunks" -> [svc EXCEPT !.memory.chunks = <<>>]
        /\ loop' = [loop EXCEPT !.proc[p].pc =
                        CASE me.pc = "init_dimension" -> "init_vectors"
                          [] me.pc = "init_vectors" -> "init_chunks"
                          [] me.pc = "init_chunks" -> "unlock"]
        /\ UNCHANGED <<wiring, last, ingested>>

\* Upsert inside the lock: the check of the vectors, then one append per step
UpsertStep(p) ==
    LET me == loop.proc[p]
    IN  /\ me.pc \in {"upsert_check", "upsert_chunks", "upsert_vectors"}
        /\ svc' = CASE me.pc = "upsert_check" -> svc
                     [] me.pc = "upsert_chunks" ->
                          [svc EXCEPT !.memory.chunks = svc.memory.chunks \o me.arg.chunks]
                     [] me.pc = "upsert_vectors" ->
                          [svc EXCEPT !.memory.vectors = svc.memory.vectors \o me.arg.vectors]
        /\ loop' = IF me.pc = "upsert_check"
                   THEN IF \E k \in DOMAIN me.arg.vectors :
                              Len(me.arg.vectors[k]) # svc.memory.dimension
                        THEN [loop EXCEPT !.proc[p].pc = "unlock",
                                          !.proc[p].err = "vector dimension mismatch"]
                        ELSE [loop EXCEPT !.proc[p].pc = "upsert_chunks"]
                   ELSE IF me.pc = "upsert_chunks"
                   THEN [loop EXCEPT !.proc[p].pc = "upsert_vectors"]
                   ELSE [loop EXCEPT !.proc[p].pc = "unlock"]
        /\ UNCHANGED <<wiring, last, ingested>>

\* Clear inside the lock: one assignment per step
ClearStep(p) ==
    LET me == loop.proc[p]
    IN  /\ me.pc \in {"clear_vectors", "clear_chunks"}
        /\ svc' = IF me.pc = "clear_vectors" THEN [svc EXCEPT !.memory.vectors = <<>>]
                  ELSE [svc EXCEPT !.memory.chunks = <<>>]
        /\ loop' = [loop EXCEPT !.proc[p].pc =
                        IF me.pc = "clear_vectors" THEN "clear_chunks" ELSE "unlock"]
        /\ UNCHANGED <<wiring, last, ingested>>

\* Search inside the read lock: the scores and their order from s.vectors,
\* then the results from s.chunks; a position s.chunks does not have makes
\* the goroutine panic
SearchStep(p) ==
    LET me == loop.proc[p]
        k0 == IF me.topK <= 0 THEN 5 ELSE me.topK
        Sorted(scores) ==
            [loop EXCEPT !.proc[p].pc = "search_results", !.proc[p].scores = scores,
                         !.proc[p].idxs = argsortDesc(scores)]
        n == IF k0 > Len(me.idxs) THEN Len(me.idxs) ELSE k0
    IN  /\ me.pc \in {"search_scores", "search_results"}
        /\ loop' = IF me.pc = "search_scores"
                   THEN Sorted([k \in DOMAIN svc.memory.vectors |->
                                   dot(svc.memory.vectors[k], me.arg)])
                   ELSE IF \E i \in 1 .. n : me.idxs[i] + 1 > Len(svc.memory.chunks)
                   THEN [loop EXCEPT !.proc[p].pc = "unlock",
                                     !.proc[p].err = "index out of range"]
                   ELSE [loop EXCEPT !.proc[p].pc = "unlock",
                                     !.proc[p].results =
                                         [i \in 1 .. n |->
                                             [Chunk |-> svc.memory.chunks[me.idxs[i] + 1],
                                              Score |-> me.scores[me.idxs[i] + 1]]]]
        /\ UNCHANGED <<wiring, svc, last, ingested>>

\* the deferred s.mu.Unlock() or s.mu.RUnlock(), and the return: the caller
\* has the error and the results, the goroutine is outside again
Unlock(p) ==
    /\ loop.proc[p].pc = "unlock"
    /\ loop' = [loop EXCEPT !.mu.writer = IF loop.mu.writer = p THEN 0 ELSE loop.mu.writer,
                            !.mu.readers = loop.mu.readers \ {p},
                            !.proc[p] = CallerIdle]
    /\ UNCHANGED <<wiring, svc, last, ingested>>

InitLock ==
    /\ wiring = Wiring("openai", "memory", 1, 0)
    /\ svc = NewRAGService
    /\ last = NoCall
    /\ ingested = FALSE
    /\ loop = [pc |-> "callers", mu |-> NewRWMutex, proc |-> [p \in Callers |-> CallerIdle]]

NextLock ==
    \E p \in Callers :
        \/ \E call \in LockCalls : GoCall(p, call)
        \/ Lock(p)
        \/ RLock(p)
        \/ InitStep(p)
        \/ UpsertStep(p)
        \/ ClearStep(p)
        \/ SearchStep(p)
        \/ Unlock(p)

SpecLock == InitLock /\ [][NextLock]_vars

(***************************************************************************)
(* Properties of the service (specification Spec)                          *)
(***************************************************************************)
\* the (chunk, vector) pairs a store holds, in the order it holds them
StorePairs(w, st) ==
    IF w.store = "memory"
    THEN [k \in DOMAIN st.memory.chunks |->
             [chunk |-> st.memory.chunks[k], vector |-> st.memory.vectors[k]]]
    ELSE [k \in DOMAIN st.server.points |->
             [chunk  |-> [DocumentID |-> st.server.points[k].payload.document_id,
                          ChunkID    |-> st.server.points[k].payload.chunk_id,
                          Text       |-> st.server.points[k].payload.text,
                          Index      |-> st.server.points[k].payload.index],
              vector |-> st.server.points[k].vector]]

\* chunks and vectors paired position by position
Pairs(chunks, vectors) ==
    [k \in DOMAIN chunks |-> [chunk |-> chunks[k], vector |-> vectors[k]]]

\* the positions, in the call log of the last call, of the calls of op
CallsTo(op) == {k \in DOMAIN last.calls : last.calls[k].op = op}

IsZeroVector(vec) == \A k \in DOMAIN vec : vec[k] = 0

IngestReturned == last.op = "IngestDocuments" /\ last.returns

QueryReturned == last.op = "Query" /\ last.returns

\* C1: after IngestDocuments returns without error the store holds exactly
\* the (chunk, vector) pairs of that call, in chunk order, and none of an
\* earlier ingestion, for the in-memory and for the remote store
IngestionReplacesStore ==
    (IngestReturned /\ last.err = "") =>
        \E k \in CallsTo("Upsert") :
            StorePairs(wiring, svc)
                = Pairs(last.calls[k].arg.chunks, last.calls[k].arg.vectors)

\* C2: an IngestDocuments call that fails before store.Clear is reached
\* leaves the contents of the store as they were
FailedIngestionKeepsStore ==
    [][(last'.op = "IngestDocuments" /\ last'.returns /\ last'.err # ""
            /\ \A k \in DOMAIN last'.calls : last'.calls[k].op # "Clear")
           => StorePairs(wiring, svc') = StorePairs(wiring, svc)]_vars

\* C3: IngestDocuments embeds the chunks one at a time in chunk order (the
\* j-th Embed call is for the j-th chunk text, and is made only when the
\* Embed calls before it succeeded); when an Embed call fails the call
\* returns its error, and Clear, Upsert and the summarizer are not called
EmbedFailureAbortsIngestion ==
    IngestReturned =>
        \A k \in CallsTo("Embed") :
            LET j == Cardinality({i \in CallsTo("Embed") : i <= k})
            IN  /\ \E p \in CallsTo("Prepare") :
                      /\ p < k
                      /\ j <= Len(last.calls[p].arg)
                      /\ last.calls[k].arg = last.calls[p].arg[j]
                /\ \A i \in CallsTo("Embed") : i < k => last.calls[i].err = ""
                /\ last.calls[k].err # "" =>
                      /\ last.err = last.calls[k].err
                      /\ k = Len(last.calls)
                      /\ CallsTo("Clear") = {}
                      /\ CallsTo("Upsert") = {}
                      /\ CallsTo("Summarize") = {}

\* an ingestion whose second Embed call failed after the first succeeded
EmbedFailureAbortsIngestionWitness ==
    /\ IngestReturned
    /\ \E k \in CallsTo("Embed") :
          /\ last.calls[k].err # ""
          /\ k - 1 \in CallsTo("Embed")
          /\ last.calls[k - 1].err = ""

\* C4: when Embed gives Query a vector whose components are all zero, Query
\* does not call store.Search and returns the lexical ranking over the
\* chunks the service keeps
ZeroVectorGoesLexical ==
    (QueryReturned /\ last.calls[1].err = "" /\ IsZeroVector(last.calls[1].out)) =>
        /\ CallsTo("Search") = {}
        /\ last.err = ""
        /\ last.results = lexicalSearch(svc.chunks, last.arg, last.topK)

\* a query with a zero vector answered from the kept chunks while the store
\* holds pairs
ZeroVectorGoesLexicalWitness ==
    /\ QueryReturned
    /\ last.calls[1].err = ""
    /\ IsZeroVector(last.calls[1].out)
    /\ StorePairs(wiring, svc) # <<>>
    /\ last.results # <<>>

\* C5: with a non-zero query vector, Query returns the lexical ranking if
\* and only if every score store.Search returned is within 1e-9 of zero;
\* when a score lies outside that band, above or below, it returns the
\* results of the store unchanged
FallbackIffScoresNearZero ==
    (QueryReturned /\ CallsTo("Search") # {} /\ last.calls[2].err = "") =>
        IF \A k \in DOMAIN last.calls[2].out :
               /\ last.calls[2].out[k].Score <= ScoreEpsilon
               /\ last.calls[2].out[k].Score >= 0 - ScoreEpsilon
        THEN last.results = lexicalSearch(svc.chunks, last.arg, last.topK)
        ELSE last.results = last.calls[2].out

\* C6: TF-IDF Embed on an embedder no Prepare has succeeded for returns an
\* error and no vector, so a Query before any successful ingestion returns
\* an error; once a Prepare has succeeded Embed returns, without error, a
\* vector of length Dimension()
TfidfEmbedNeedsPrepare ==
    wiring.embedder = "tfidf" =>
        /\ (QueryReturned /\ ~svc.tfidf.prepared) =>
              /\ last.calls[1].err # ""
              /\ last.calls[1].out = <<>>
        /\ (QueryReturned /\ ~ingested) => last.err # ""
        /\ svc.tfidf.prepared =>
              \A k \in CallsTo("Embed") :
                  /\ last.calls[k].err = ""
                  /\ Len(last.calls[k].out) = svc.tfidf.dimension

(***************************************************************************)
(* Properties of the TF-IDF embedder (specification SpecTfidf)             *)
(***************************************************************************)
\* every token of a text, lower-cased
TokensOf(text) == Range(FindAllTokens(ToLower(text)))

\* the distinct terms of a corpus that are no stopwords
SurvivingTerms(corpus) ==
    UNION {TokensOf(corpus[k]) \ defaultStopwords : k \in DOMAIN corpus}

\* C7: Prepare returns an error when the corpus is empty or no term of it
\* survives tokenization and stopword filtering; otherwise it succeeds, the
\* embedder is prepared, and Dimension() is the number of distinct surviving
\* terms of that corpus alone, the terms of an earlier Prepare being gone
PrepareBuildsVocabulary ==
    last.op = "Prepare" =>
        IF last.arg = <<>> \/ SurvivingTerms(last.arg) = {}
        THEN last.err # ""
        ELSE /\ last.err = ""
             /\ svc.tfidf.prepared
             /\ EmbedderDimension(wiring, svc) = Cardinality(SurvivingTerms(last.arg))
             /\ Range(svc.tfidf.vocabulary) = SurvivingTerms(last.arg)

\* a Prepare that succeeded on an embedder whose earlier vocabulary held a
\* term the new corpus does not
PrepareBuildsVocabularyWitness ==
    /\ last.op = "Prepare"
    /\ last.err = ""
    /\ \E k \in DOMAIN last.results : last.results[k] \notin SurvivingTerms(last.arg)

\* C8: on a prepared embedder Embed returns the all-zero vector if and only
\* if no token of the text is in the vocabulary; when a token is in the
\* vocabulary some component is not zero
ZeroVectorIffNoKnownToken ==
    (last.op = "Embed" /\ svc.tfidf.prepared) =>
        /\ last.err = ""
        /\ (TokensOf(last.arg) \cap Range(svc.tfidf.vocabulary) = {})
              <=> (last.results = [k \in 1 .. svc.tfidf.dimension |-> 0])
        /\ (TokensOf(last.arg) \cap Range(svc.tfidf.vocabulary) # {})
              => \E k \in DOMAIN last.results : last.results[k] # 0

\* an Embed of a text that has tokens, none of them in the vocabulary
ZeroVectorIffNoKnownTokenWitness ==
    /\ last.op = "Embed"
    /\ svc.tfidf.prepared
    /\ TokensOf(last.arg) # {}
    /\ TokensOf(last.arg) \cap Range(svc.tfidf.vocabulary) = {}
    /\ IsZeroVector(last.results)

(***************************************************************************)
(* Properties of the chunker (specification SpecChunk)                     *)
(***************************************************************************)
\* C9: Chunk terminates for every configuration NewSentenceChunker accepts,
\* an overlap of at least the chunk size included: an iteration of the loop
\* that does not end it moves the start position on by at least one sentence
ChunkLoopAdvances ==
    [][(loop.pc = "loop" /\ loop'.pc = "loop") => loop'.i >= loop.i + 1]_vars

(***************************************************************************)
(* Properties of the remote embedder (specification SpecEmbed)             *)
(***************************************************************************)
\* an answer is in: the loop has made a request
Answered == loop.pc \in {"request", "returned"} /\ loop.requests > 0

\* a transport failure, or a 429 or 5xx status
Retryable(a) == a.net = "fail" \/ a.status = 429 \/ a.status >= 500

\* a status of 300 or above that is neither 429 nor 5xx
Refused(a) == a.net = "ok" /\ a.status >= 300 /\ a.status # 429 /\ a.status < 500

\* a status below 300 with a body that is empty or holds no embedding
EmptyAnswer(a) ==
    a.net = "ok" /\ a.status < 300 /\ a.body.readable /\ ParseEmbedding(a.body) = <<>>

\* a status below 300 with a body that could not be read
BrokenAnswer(a) == a.net = "ok" /\ a.status < 300 /\ ~a.body.readable

WithinSixRequests ==
    Answered =>
        /\ maxRetries + 1 = 6
        /\ loop.requests <= 6
        /\ loop.pc = "request" => loop.requests < 6
        /\ (loop.pc = "returned" /\ Retryable(loop.answer)) =>
              /\ loop.requests = 6
              /\ loop.err # ""
              /\ loop.vec = <<>>
              /\ svc.openai = loop.before

\* C11: remote Embed always returns, after at most maxRetries + 1 = 6
\* requests whatever the server answers; when the attempts end in transport
\* failures or 429/5xx answers it returns an error and leaves Dimension()
\* as it was
EmbedTerminates ==
    /\ []WithinSixRequests
    /\ (loop.pc = "request") ~> (loop.pc = "returned")

\* a call returned after six requests that all but the last may have been
\* answered in any way, the last by a 429/5xx status, on a client that had
\* learned its dimension
EmbedTerminatesWitness ==
    /\ loop.pc = "returned"
    /\ loop.requests = 6
    /\ loop.answer.net = "ok"
    /\ loop.answer.status = 429
    /\ loop.err # ""
    /\ loop.before.dimension = 2

(***************************************************************************)
(* Properties of whole calls on the remote embedder (specification         *)
(* SpecClient)                                                             *)
(***************************************************************************)
\* a call of Embed has returned
EmbedReturned == last.op = "Embed"

\* the k-th request of the call was answered by a 429/5xx status carrying
\* Retry-After: secs
AskedToWait(k, secs) ==
    LET a == AnswerAt(last.arg, k - 1)
    IN  a.net = "ok" /\ (a.status = 429 \/ a.status >= 500) /\ a.retryAfter = secs

\* C12: a 429/5xx answer with Retry-After holding an integer number of
\* seconds is followed by a delay of exactly that many seconds, not the
\* computed backoff; for the answers [429 with Retry-After: 1, 200 with an
\* embedding] Embed succeeds after exactly two requests and exactly one
\* delay, of 1 second
RetryAfterIsHonoured ==
    EmbedReturned =>
        /\ \A k \in 1 .. last.requests :
              /\ AskedToWait(k, <<"1">>) => (k <= Len(last.slept) /\ last.slept[k] = 1000)
              /\ AskedToWait(k, <<"2">>) => (k <= Len(last.slept) /\ last.slept[k] = 2000)
        /\ last.arg = <<Answer(429, <<"1">>, NoBody)>> \o Gives(VecEast) =>
              /\ last.err = ""
              /\ last.results = VecEast
              /\ last.requests = 2
              /\ last.slept = <<1000>>

\* the call answered by 429 with Retry-After: 1 and then by an embedding
RetryAfterIsHonouredWitness ==
    /\ EmbedReturned
    /\ last.arg = <<Answer(429, <<"1">>, NoBody)>> \o Gives(VecEast)
    /\ last.err = ""

\* a call has just returned a vector
ReturnedVector == last.op = "Embed" /\ last.err = "" /\ last.results # <<>>

\* C13: Dimension() of the remote embedder is 0 until the first Embed that
\* returns a vector, the length of that vector from then on, whatever the
\* lengths of later answers, and Prepare never changes it
DimensionLearnedOnce ==
    [][/\ svc.openai.dimension # 0 => svc'.openai.dimension = svc.openai.dimension
       /\ (svc.openai.dimension = 0 /\ ReturnedVector') =>
              svc'.openai.dimension = Len(last'.results)
       /\ (svc.openai.dimension = 0 /\ ~ReturnedVector') => svc'.openai.dimension = 0
       /\ last'.op = "Prepare" => (last'.err = "" /\ svc' = svc)]_vars

\* a client that learned dimension 2 has returned a vector of length 1
DimensionLearnedOnceWitness ==
    /\ ReturnedVector
    /\ last.before.dimension = 2
    /\ Len(last.results) = 1
    /\ svc.openai.dimension = 2

(***************************************************************************)
(* Properties of the in-memory store (specification SpecStore)             *)
(***************************************************************************)
\* the dot product of two vectors over the shorter length, in score units
RECURSIVE ProductsTo(_, _, _)
ProductsTo(a, b, n) == IF n = 0 THEN 0 ELSE ProductsTo(a, b, n - 1) + a[n] * b[n]

Similarity(a, b) == 1000 * ProductsTo(a, b, IF Len(a) < Len(b) THEN Len(a) ELSE Len(b))

\* how often x is in a sequence
Count(seq, x) == Cardinality({i \in DOMAIN seq : seq[i] = x})

\* the lists of a store are of one length and its vectors of its dimension
ParallelLists(s) ==
    /\ Len(s.chunks) = Len(s.vectors)
    /\ \A k \in DOMAIN s.vectors : Len(s.vectors[k]) = s.dimension

\* the arguments of an Upsert that the store must refuse
Refusable(s, batch) ==
    \/ Len(batch.chunks) # Len(batch.vectors)
    \/ \E k \in DOMAIN batch.vectors : Len(batch.vectors[k]) # s.dimension

\* C14: after any sequence of Init, Upsert, Clear and Search the chunk list
\* and the vector list of the in-memory store have the same length, entry i
\* of one belongs to entry i of the other and every vector has the length of
\* the store's dimension; an Upsert whose arguments differ in length or hold
\* a vector of another length returns an error and leaves the store as it
\* was, with nothing appended
StoreListsStayParallel ==
    [][/\ ParallelLists(svc'.memory)
       /\ last'.op = "Upsert" =>
              /\ (last'.err # "") <=> Refusable(svc.memory, last'.arg)
              /\ Refusable(svc.memory, last'.arg) => svc'.memory = svc.memory
              /\ ~Refusable(svc.memory, last'.arg) =>
                    /\ svc'.memory.chunks = svc.memory.chunks \o last'.arg.chunks
                    /\ svc'.memory.vectors = svc.memory.vectors \o last'.arg.vectors
                    /\ svc'.memory.dimension = svc.memory.dimension
       /\ last'.op = "Search" => svc'.memory = svc.memory]_vars

\* an Upsert of two entries refused for its second vector on a store that
\* holds entries, and holds as many as before
StoreListsStayParallelWitness ==
    /\ last.op = "Upsert"
    /\ last.err # ""
    /\ Len(last.arg.chunks) = 2
    /\ Len(last.arg.vectors) = 2
    /\ Len(last.arg.vectors[1]) = svc.memory.dimension
    /\ Len(last.arg.vectors[2]) # svc.memory.dimension
    /\ last.held > 0
    /\ Len(svc.memory.vectors) = last.held

\* C15: Init(d) with d > 0 leaves the in-memory store empty with dimension d
\* whatever it held; Init(d) with d <= 0 returns an error and leaves
\* dimension and contents alone; Clear empties chunks and vectors and keeps
\* the dimension
InitResetsClearEmpties ==
    [][/\ (last'.op = "Init" /\ last'.arg > 0) =>
              /\ last'.err = ""
              /\ svc'.memory = [dimension |-> last'.arg, vectors |-> <<>>, chunks |-> <<>>]
       /\ (last'.op = "Init" /\ last'.arg <= 0) =>
              /\ last'.err # ""
              /\ svc'.memory = svc.memory
       /\ last'.op = "Clear" =>
              /\ last'.err = ""
              /\ svc'.memory.chunks = <<>>
              /\ svc'.memory.vectors = <<>>
              /\ svc'.memory.dimension = svc.memory.dimension]_vars

\* Init(1) has returned on a store that held entries
InitResetsClearEmptiesWitness ==
    /\ last.op = "Init"
    /\ last.arg = 1
    /\ last.held > 0
    /\ svc.memory = [dimension |-> 1, vectors |-> <<>>, chunks |-> <<>>]

\* the stored entries with their scores for a query vector
Scored(s, vector) ==
    [j \in DOMAIN s.vectors |->
        [Chunk |-> s.chunks[j], Score |-> Similarity(s.vectors[j], vector)]]

\* the results r are min(k, n) of the entries, none more often than it is
\* stored, in non-increasing score order, and no entry left out scores more
\* than one returned
IsTopOf(r, entries, k) ==
    /\ Len(r) = IF k < Len(entries) THEN k ELSE Len(entries)
    /\ \A i \in DOMAIN r : Count(r, r[i]) <= Count(entries, r[i])
    /\ \A i \in 1 .. Len(r) - 1 : r[i].Score >= r[i + 1].Score
    /\ \A j \in DOMAIN entries :
          Count(r, entries[j]) < Count(entries, entries[j]) =>
              \A i \in DOMAIN r : r[i].Score >= entries[j].Score

\* C16: Search over n stored vectors returns exactly min(k', n) results,
\* with k' = topK if topK > 0 and 5 otherwise: distinct stored entries, each
\* scored by the dot product of its vector with the query, in non-increasing
\* score order, none scoring less than an entry not returned; and Search
\* leaves the store unchanged
SearchReturnsTopK ==
    [][last'.op = "Search" =>
          /\ last'.err = ""
          /\ svc' = svc
          /\ IsTopOf(last'.results, Scored(svc.memory, last'.arg),
                     IF last'.topK > 0 THEN last'.topK ELSE 5)]_vars

\* a Search with topK = 0 over six entries has returned five results of
\* which the first scores more than the last
SearchReturnsTopKWitness ==
    /\ last.op = "Search"
    /\ last.topK = 0
    /\ Len(svc.memory.vectors) = 6
    /\ Len(last.results) = 5
    /\ last.results[1].Score > last.results[5].Score

\* the positions of the store that hold the vector searched for
Holding(s, vector) == {j \in DOMAIN s.vectors : s.vectors[j] = vector}

\* the highest score a stored vector has against the vector
MaxScore(s, vector) ==
    CHOOSE m \in {Similarity(s.vectors[j], vector) : j \in DOMAIN s.vectors} :
        \A j \in DOMAIN s.vectors : m >= Similarity(s.vectors[j], vector)

\* C17: after Upsert of a chunk with vector v, alongside any other stored
\* vectors of the same dimension, Search(v, k) returns that chunk as the
\* first result and its score is the maximum score over all stored vectors
RoundTripReturnsChunkFirst ==
    last.op = "Search" =>
        \A j \in Holding(svc.memory, last.arg) :
            /\ last.results # <<>>
            /\ last.results[1].Chunk = svc.memory.chunks[j]
            /\ last.results[1].Score = MaxScore(svc.memory, last.arg)

\* C17 as amended: after Upsert of a chunk with vector v, Search(v, k)
\* returns as its first result a stored entry whose score is the maximum
\* score over all stored vectors, which is at least dot(v, v); the first
\* result is that chunk whenever every other stored vector w has
\* dot(w, v) < dot(v, v)
RoundTripReturnsBestFirst ==
    last.op = "Search" =>
        \A j \in Holding(svc.memory, last.arg) :
            /\ last.results # <<>>
            /\ last.results[1].Score = MaxScore(svc.memory, last.arg)
            /\ last.results[1].Score >= Similarity(last.arg, last.arg)
            /\ (\A i \in DOMAIN svc.memory.vectors \ {j} :
                    Similarity(svc.memory.vectors[i], last.arg)
                        < Similarity(last.arg, last.arg))
                  => last.results[1].Chunk = svc.memory.chunks[j]

\* a Search for a stored vector among three or more entries, none of the
\* others scoring as much, has returned its chunk first
RoundTripReturnsBestFirstWitness ==
    /\ last.op = "Search"
    /\ Len(svc.memory.vectors) >= 3
    /\ \E j \in Holding(svc.memory, last.arg) :
          /\ \A i \in DOMAIN svc.memory.vectors \ {j} :
                Similarity(svc.memory.vectors[i], last.arg)
                    < Similarity(last.arg, last.arg)
          /\ last.results[1].Chunk = svc.memory.chunks[j]
          /\ j > 1

(***************************************************************************)
(* Properties of the in-memory store under concurrent callers              *)
(* (specification SpecLock)                                                *)
(***************************************************************************)
\* the goroutine is between its lock operation and its unlock
Inside(p) == loop.proc[p].pc \notin {"idle", "lock", "rlock", "done"}

Writing(p) == Inside(p) /\ loop.proc[p].op \in {"Init", "Upsert", "Clear"}

Reading(p) == Inside(p) /\ loop.proc[p].op = "Search"

\* C18: with concurrent callers Init, Upsert and Clear each run with no other
\* Init, Upsert, Clear or Search inside the store, any number of Search calls
\* may be inside together, and a Search never observes chunk and vector
\* lists of different lengths and sees all or none of the entries of any one
\* Upsert: the store stays as it was when the Search entered, and a Search
\* about to return gives the results of Search on that store
WritersAreExclusive ==
    \A p \in Callers :
        /\ Writing(p) => \A q \in Callers \ {p} : ~Inside(q)
        /\ Reading(p) =>
              /\ Len(svc.memory.chunks) = Len(svc.memory.vectors)
              /\ svc.memory = loop.proc[p].seen
        /\ (loop.proc[p].pc = "unlock" /\ loop.proc[p].op = "Search") =>
              /\ loop.proc[p].err = ""
              /\ IsTopOf(loop.proc[p].results,
                         Scored(loop.proc[p].seen, loop.proc[p].arg),
                         IF loop.proc[p].topK > 0 THEN loop.proc[p].topK ELSE 5)

\* two Search calls inside together on a store that holds entries, while
\* no Upsert is inside
WritersAreExclusiveWitness ==
    /\ Reading(1)
    /\ Reading(2)
    /\ svc.memory.vectors # <<>>

(***************************************************************************)
(* Further properties of the service (specification Spec)                  *)
(***************************************************************************)
\* the two states answer every query alike
AnswerAlike(st1, st2) ==
    \A query \in Queries(wiring), topK \in TopKs, env \in QueryEnvs(wiring) :
        LET Same(a, b) == a.err = b.err /\ a.results = b.results
        IN  Same(Query(wiring, st1, query, topK, env), Query(wiring, st2, query, topK, env))

\* C19: a Query that returns an error, from Embed or from store.Search,
\* leaves the chunk list the service retains, the state of the embedder
\* (prepared flag, vocabulary, idf, dimension) and the contents of the store
\* unchanged, so that a later Query is answered as if the failed one had not
\* been issued
FailedQueryChangesNothing ==
    [][(last'.op = "Query" /\ last'.returns /\ last'.err # "") =>
          /\ svc'.chunks = svc.chunks
          /\ svc'.tfidf = svc.tfidf
          /\ svc'.openai = svc.openai
          /\ StorePairs(wiring, svc') = StorePairs(wiring, svc)
          /\ AnswerAlike(svc', svc)]_vars

\* the name ends in ".txt", in any mix of upper and lower case
EndsInTxt(path) ==
    /\ Len(path) >= 4
    /\ path[Len(path) - 3] = "."
    /\ path[Len(path) - 2] \in {"t", "T"}
    /\ path[Len(path) - 1] \in {"x", "X"}
    /\ path[Len(path)] \in {"t", "T"}

\* the candidate paths of a call: for each path the files its pattern
\* matches, or the path itself when nothing matches
RECURSIVE Candidates(_)
Candidates(paths) ==
    IF paths = <<>> THEN <<>>
    ELSE (IF Glob(Head(paths)) = <<>> THEN <<Head(paths)>> ELSE Glob(Head(paths)))
             \o Candidates(Tail(paths))

Qualified(paths) == SelectSeq(Candidates(paths), EndsInTxt)

\* the paths of the documents handed to the chunker, in order
ChunkedPaths(calls) ==
    LET chunkCalls == SelectSeq(calls, LAMBDA c : c.op = "Chunk")
    IN  [k \in DOMAIN chunkCalls |-> chunkCalls[k].arg]

IsPrefix(a, b) == Len(a) <= Len(b) /\ a = SubSeq(b, 1, Len(a))

MaxRetained == 13

\* sort.Slice with the comparison of lexicalSearch, every length: up to 12
\* elements it is the insertion sort of SortDesc; beyond 12 it partitions
\* around a pivot and "is not guaranteed to be stable", so any two neighbours
\* of equal score may come out in either order
sortSlice(pairs) ==
    LET Orders(stable) ==
            {stable} \cup
                {[k \in DOMAIN stable |->
                     IF k = i THEN stable[i + 1] ELSE IF k = i + 1 THEN stable[i]
                     ELSE stable[k]] :
                   i \in {j \in 1 .. Len(stable) - 1 :
                             stable[j].score = stable[j + 1].score}}
    IN  IF Len(pairs) <= 12 THEN {SortDesc(pairs, <<>>)} ELSE Orders(SortDesc(pairs, <<>>))

\* lexicalSearch for a chunk list of any length: the results it may return
lexicalSearchOrders(chunks, query, topK) ==
    LET k0 == IF topK <= 0 THEN 5 ELSE topK
        Top(scores) ==
            [i \in 1 .. (IF k0 > Len(scores) THEN Len(scores) ELSE k0) |->
                [Chunk |-> chunks[scores[i].idx], Score |-> scores[i].score]]
        Ranked(qset) ==
            {Top(scores) :
                scores \in sortSlice([k \in DOMAIN chunks |->
                                         [idx |-> k,
                                          score |-> overlapOchiai(qset, chunks[k].Text)]])}
    IN  Ranked(toTokenSet(query))

\* the chunk lists retained: n one-sentence chunks of one document, all
\* "The cat.", or with "dog" in front, or every second one "It is."
RetainedShapes == {"alike", "head", "mixed"}

RetainedList(n, shape) ==
    [k \in 1 .. n |->
        [DocumentID |-> hashString(PathA),
         ChunkID    |-> hashString(PathA) \o <<":">> \o Itoa(k - 1),
         Text       |-> IF shape = "head" /\ k = 1 THEN TextBare
                        ELSE IF shape = "mixed" /\ k % 2 = 0 THEN TextStop
                        ELSE TextOne,
         Index      |-> k - 1]]

LexicalTopKs == {-1, 0, 2, 20}

\* IngestDocuments has retained a chunk list
Retain(n, shape) ==
    /\ svc' = [svc EXCEPT !.chunks = RetainedList(n, shape)]
    /\ last' = [NoCall EXCEPT !.op = "IngestDocuments"]
    /\ UNCHANGED <<wiring, ingested, loop>>

\* a call of lexicalSearch
LexicalSearch(query, topK) ==
    /\ \E results \in lexicalSearchOrders(svc.chunks, query, topK) :
          last' = [op |-> "lexicalSearch", arg |-> query, topK |-> topK,
                   returns |-> TRUE, err |-> "", results |-> results, calls |-> <<>>]
    /\ UNCHANGED <<wiring, svc, ingested, loop>>

InitLexical ==
    /\ wiring = Wiring("tfidf", "memory", 1, 0)
    /\ svc = NewRAGService
    /\ last = NoCall
    /\ ingested = FALSE
    /\ loop = LoopIdle

NextLexical ==
    \/ \E n \in 0 .. MaxRetained, shape \in RetainedShapes : Retain(n, shape)
    \/ \E query \in {QueryCat, QueryCatDog, QueryZebra, QueryThe}, topK \in LexicalTopKs :
          LexicalSearch(query, topK)

SpecLexical == InitLexical /\ [][NextLexical]_vars

\* the position of a chunk in the retained chunk list
ListPosition(chunk) == CHOOSE k \in DOMAIN svc.chunks : svc.chunks[k] = chunk

\* C21: lexical fallback over the n retained chunks returns min(k', n)
\* results (k' = topK if topK > 0, else 5) in non-increasing score order, each
\* a retained chunk with its Ochiai score, and a retained chunk whose score
\* equals that of a listed result and that comes earlier in the retained list
\* is listed before it
LexicalTiesKeepListOrder ==
    last.op = "lexicalSearch" =>
        LET res == last.results
            k1 == IF last.topK > 0 THEN last.topK ELSE 5
            ScoreOf(chunk) == overlapOchiai(toTokenSet(last.arg), chunk.Text)
        IN  /\ Len(res) = IF k1 < Len(svc.chunks) THEN k1 ELSE Len(svc.chunks)
            /\ \A j \in DOMAIN res :
                  /\ res[j].Chunk \in Range(svc.chunks)
                  /\ res[j].Score = ScoreOf(res[j].Chunk)
            /\ \A i, j \in DOMAIN res : i < j => res[i].Score >= res[j].Score
            /\ \A j \in DOMAIN res : \A c \in DOMAIN svc.chunks :
                  (/\ c < ListPosition(res[j].Chunk)
                   /\ ScoreOf(svc.chunks[c]) = res[j].Score)
                      => \E i \in 1 .. j - 1 : res[i].Chunk = svc.chunks[c]

(***************************************************************************)
(* Further properties of the chunker (specification SpecChunk)             *)
(***************************************************************************)
\* a Chunk call has returned for a document of at least one sentence, made
\* with an overlap below the chunk size
ChunkedWithSmallOverlap ==
    /\ loop.pc = "returned"
    /\ Len(loop.sentences) >= 1
    /\ loop.c.overlapSentences < loop.c.sentencesPerChunk

\* C22: for a document of N >= 1 sentences, chunk size S and overlap O with
\* 0 <= O < S, chunk k holds the sentences [k(S-O), min(k(S-O)+S, N)): there
\* are max(1, ceil((N-O)/(S-O))) chunks, none holds more than S sentences,
\* every sentence is in a chunk, the last chunk ends at sentence N and two
\* consecutive chunks share exactly O sentences
ChunksAreSlidingWindows ==
    ChunkedWithSmallOverlap =>
        LET N == Len(loop.sentences)
            S == loop.c.sentencesPerChunk
            O == loop.c.overlapSentences
            ceil == (N - O + (S - O) - 1) \div (S - O)
            count == IF ceil < 1 THEN 1 ELSE ceil
            Lo(k) == k * (S - O)
            Hi(k) == IF Lo(k) + S < N THEN Lo(k) + S ELSE N
        IN  /\ O >= 0
            /\ Len(loop.chunks) = count
            /\ \A k \in 0 .. count - 1 :
                  /\ loop.chunks[k + 1].Text
                        = Join(SubSeq(loop.sentences, Lo(k) + 1, Hi(k)), <<" ">>)
                  /\ Hi(k) - Lo(k) >= 1
                  /\ Hi(k) - Lo(k) <= S
            /\ \A n \in 0 .. N - 1 : \E k \in 0 .. count - 1 : Lo(k) <= n /\ n < Hi(k)
            /\ Hi(count - 1) = N
            /\ \A k \in 0 .. count - 2 : Hi(k) - Lo(k + 1) = O

\* five sentences chunked by three with an overlap of two
ChunksAreSlidingWindowsWitness ==
    /\ ChunkedWithSmallOverlap
    /\ Len(loop.sentences) = 5
    /\ loop.c.sentencesPerChunk = 3
    /\ loop.c.overlapSentences = 2
    /\ Len(loop.chunks) = 3

\* the content is empty or holds white space only
IsBlank(content) == \A k \in DOMAIN content : content[k] \in {" ", "\t", "\n", "\r"}

\* C23: the chunks one Chunk call returns carry the document's ID, have the
\* Index values 0, 1, ..., n-1 in list order and the ChunkID DocumentID ":"
\* Index; a document whose content is empty or white space only gives no
\* chunk, and the call returns all the same
ChunksAreNumbered ==
    /\ loop.pc = "returned" =>
          \A k \in DOMAIN loop.chunks :
              /\ loop.chunks[k].DocumentID = ChunkDocID
              /\ loop.chunks[k].Index = k - 1
              /\ loop.chunks[k].ChunkID
                    = ChunkDocID \o <<":", <<"0","1","2","3","4","5","6","7","8","9">>[k]>>
    /\ (loop.pc # "idle" /\ IsBlank(loop.content)) =>
          loop.pc = "returned" /\ loop.chunks = <<>>

\* a Chunk call has returned four chunks
ChunksAreNumberedWitness ==
    /\ loop.pc = "returned"
    /\ Len(loop.chunks) = 4
    /\ loop.chunks[4].Index = 3
    /\ loop.c.overlapSentences = 1

(***************************************************************************)
(* Further properties of the remote embedder (specification SpecEmbed)     *)
(***************************************************************************)
\* the last iteration of the loop slept the computed backoff delay: it
\* slept, and not for the seconds of a Retry-After header
SleptBackoff ==
    /\ Answered
    /\ loop.slept # <<>>
    /\ ~(loop.answer.net = "ok" /\ loop.answer.retryAfter \in {<<"1">>, <<"2">>})

\* C24: within one Embed call the computed backoff delay for attempt a
\* (a = 0 .. maxRetries) is 200ms * 2^a capped at 5s, so it never exceeds 5s
\* and does not decrease from one attempt to the next
BackoffDoublesToCap ==
    [][/\ SleptBackoff' =>
             LET a == loop'.requests - 1
             IN  /\ a \in 0 .. maxRetries
                 /\ loop'.slept = <<IF 200 * 2^a > 5000 THEN 5000 ELSE 200 * 2^a>>
                 /\ loop'.slept[1] <= 5000
       /\ (SleptBackoff /\ SleptBackoff' /\ loop'.requests = loop.requests + 1) =>
             loop'.slept[1] >= loop.slept[1]]_vars

\* the sixth request of a call was answered by a failure and followed by the
\* capped delay
BackoffDoublesToCapWitness ==
    /\ SleptBackoff
    /\ loop.requests = maxRetries + 1
    /\ loop.slept = <<5000>>

(***************************************************************************)
(* The remote store during ingestion (specification Spec)                  *)
(***************************************************************************)
\* C25: Clear of the remote store returns no error, whether the delete
\* request fails in transport, is refused by the server or succeeds; so in an
\* ingestion every Clear is followed by the Upsert
ClearNeverStopsUpsert ==
    [][(last'.op = "IngestDocuments" /\ wiring.store = "qdrant") =>
          \A k \in DOMAIN last'.calls :
              last'.calls[k].op = "Clear" =>
                  /\ last'.calls[k].err = ""
                  /\ k < Len(last'.calls)
                  /\ last'.calls[k + 1].op = "Upsert"]_vars

\* an ingestion of a.txt into the remote store has succeeded and the points
\* of b.TXT, ingested before, are still on the server: the delete request of
\* its Clear did not remove the collection, and its Upsert was made
ClearNeverStopsUpsertWitness ==
    /\ wiring.store = "qdrant"
    /\ last.op = "IngestDocuments"
    /\ last.arg = <<PathA>>
    /\ last.err = ""
    /\ \E k \in DOMAIN last.calls : last.calls[k].op = "Upsert"
    /\ \E k \in DOMAIN svc.server.points :
          svc.server.points[k].payload.document_id = hashString(PathB)

(***************************************************************************)
(* Specification SpecOchiai: the lexical score of two token sets           *)
(***************************************************************************)
MaxTokens == 300

\* the sizes of the token sets tried, and the sizes of their intersection
TokenCounts == 0 .. 5 \cup {100, MaxTokens}

SharedCounts(qa, ba) ==
    LET least == IF qa < ba THEN qa ELSE ba
    IN  {n \in 0 .. 5 : n <= least} \cup {least}

\* overlapOchiai called on a query set of qa tokens and a text of ba distinct
\* tokens, inter of them in the query set
OchiaiCall(inter, qa, ba) ==
    /\ last' = [op |-> "overlapOchiai", arg |-> [inter |-> inter, qa |-> qa, ba |-> ba],
                topK |-> 0, returns |-> TRUE, err |-> "", results |-> <<>>,
                calls |-> <<>>, score |-> ochiaiOfSizes(inter, qa, ba)]
    /\ UNCHANGED <<wiring, svc, ingested, loop>>

InitOchiai ==
    /\ wiring = Wiring("tfidf", "memory", 1, 0)
    /\ svc = NewRAGService
    /\ last = NoCall
    /\ ingested = FALSE
    /\ loop = LoopIdle

NextOchiai ==
    \E qa \in TokenCounts, ba \in TokenCounts :
        \E inter \in SharedCounts(qa, ba) : OchiaiCall(inter, qa, ba)

SpecOchiai == InitOchiai /\ [][NextOchiai]_vars

\* C26: the lexical score of a query token set Q against a chunk token set C
\* is 0 when Q or C is empty and |Q n C| / sqrt(|Q| |C|) otherwise (here to
\* two thousandths); it is symmetric in Q and C, lies in [0, 1], and is 1
\* whenever Q and C are the same non-empty set
OchiaiIsExact ==
    last.op = "overlapOchiai" =>
        LET inter == last.arg.inter
            qa == last.arg.qa
            ba == last.arg.ba
            thousandths == last.score \div (1000 * 1000)
            root == Sqrt(qa * ba * 10000)   \* 100 * sqrt(|Q| |C|), rounded down
        IN  /\ (qa = 0 \/ ba = 0) => last.score = 0
            /\ (qa > 0 /\ ba > 0) =>
                  /\ (thousandths - 2) * root <= inter * 100000
                  /\ inter * 100000 <= (thousandths + 2) * (root + 1)
            /\ last.score = ochiaiOfSizes(inter, ba, qa)
            /\ last.score >= 0
            /\ last.score <= 1000 * 1000 * 1000
            /\ (qa > 0 /\ inter = qa /\ qa = ba) => last.score = 1000 * 1000 * 1000

(***************************************************************************)
(* The retained chunk list (specification Spec)                            *)
(***************************************************************************)
\* the chunks the store holds, in order
StoreChunks(st) ==
    LET pairs == StorePairs(wiring, st)
    IN  [k \in DOMAIN pairs |-> pairs[k].chunk]

\* C27: the chunk list the service retains for lexical fallback is the chunk
\* list of the last successful ingestion, the chunks the store holds: a
\* successful IngestDocuments leaves the retained list equal to the chunks in
\* the store, and a failed one leaves the retained list as it was
RetainedChunksAreLastIngested ==
    [][(last'.op = "IngestDocuments" /\ last'.returns) =>
          /\ last'.err = "" => svc'.chunks = StoreChunks(svc')
          /\ last'.err # "" => svc'.chunks = svc.chunks]_vars

(***************************************************************************)
(* Ingestion before the remote embedder knows its dimension (Spec)         *)
(***************************************************************************)
\* C28: with a remote embedder whose Embed has not yet succeeded
\* (Dimension() = 0, Prepare doing nothing), an IngestDocuments call that has
\* chunked its documents calls store.Init(0), which fails with an
\* invalid-dimension error for both stores, and the call returns that error
\* with no chunk embedded or upserted
IngestNeedsLearnedDimension ==
    [][(/\ last'.op = "IngestDocuments"
        /\ wiring.embedder = "openai"
        /\ svc.openai.dimension = 0
        /\ \E k \in DOMAIN last'.calls : last'.calls[k].op = "Prepare") =>
          LET calls == last'.calls
              n == Len(calls)
          IN  /\ calls[n - 1].op = "Prepare"
              /\ calls[n - 1].err = ""
              /\ calls[n].op = "Init"
              /\ calls[n].arg = 0
              /\ calls[n].err = "invalid dimension"
              /\ last'.returns
              /\ last'.err = "invalid dimension"
              /\ \A k \in DOMAIN calls : calls[k].op \notin {"Embed", "Clear", "Upsert"}
              /\ StorePairs(wiring, svc') = StorePairs(wiring, svc)
              /\ svc'.openai = svc.openai]_vars

\* an ingestion into the remote store with the remote embedder has failed at
\* store.Init(0)
IngestNeedsLearnedDimensionWitness ==
    /\ wiring.embedder = "openai"
    /\ wiring.store = "qdrant"
    /\ last.op = "IngestDocuments"
    /\ last.err = "invalid dimension"
    /\ svc.openai.dimension = 0
    /\ \E k \in DOMAIN last.calls : last.calls[k].op = "Init" /\ last.calls[k].arg = 0

(***************************************************************************)
(* The requests of one ingestion to the remote store (Spec)                *)
(***************************************************************************)
\* the store methods called by the last call, in order
StoreOps(calls) ==
    LET made == SelectSeq(calls, LAMBDA c : c.op \in {"Init", "Clear", "Upsert", "Search"})
    IN  [k \in DOMAIN made |-> made[k].op]

\* C29: with the remote store one ingestion calls Init (create collection),
\* Clear (delete collection) and Upsert (upsert points) in this order, with
\* no Init between the Clear and the Upsert: the points are upserted into the
\* collection the same call has just asked the server to delete, so when the
\* server did delete it the upsert is refused
UpsertFollowsDelete ==
    [][(last'.op = "IngestDocuments" /\ wiring.store = "qdrant") =>
          LET ops == StoreOps(last'.calls)
          IN  /\ IsPrefix(ops, <<"Init", "Clear", "Upsert">>)
              /\ (last'.returns /\ last'.err = "") => ops = <<"Init", "Clear", "Upsert">>
              /\ (Len(ops) = 3 /\ ~svc'.server.exists) => last'.err # ""]_vars

\* an ingestion has created the collection, deleted it and had its points
\* refused
UpsertFollowsDeleteWitness ==
    /\ wiring.store = "qdrant"
    /\ last.op = "IngestDocuments"
    /\ StoreOps(last.calls) = <<"Init", "Clear", "Upsert">>
    /\ last.err = "qdrant PUT failed"
    /\ ~svc.server.exists

(***************************************************************************)
(* The chunk ids of one ingestion (Spec)                                   *)
(***************************************************************************)
\* C30: within one ingestion the ChunkIDs of the chunks passed to
\* store.Upsert, and so the point ids documentId:index, are pairwise
\* distinct, also when the same file is reached through two of the paths
UpsertedChunkIDsAreDistinct ==
    last.op = "IngestDocuments" =>
        \A k \in CallsTo("Upsert") :
            LET chunks == last.calls[k].arg.chunks
            IN  \A i, j \in DOMAIN chunks :
                    i # j =>
                        /\ chunks[i].ChunkID # chunks[j].ChunkID
                        /\ PointOf(chunks[i], <<>>).id # PointOf(chunks[j], <<>>).id

=============================================================================
